---- MODULE Spec2Model ----
(***************************************************************************)
(* Gatekeep / CalGuard: the sanitization engine (tiers, scorer, redactor), *)
(* the proxy that rewrites tool responses, and the threat-intel client     *)
(* with its local cache.                                                   *)
(*                                                                         *)
(* Numbers.  Severities and confidences are in thousandths (0.90 = 900),   *)
(* tier weights and multipliers in hundredths (0.40 = 40, 1.15 = 115),     *)
(* scores and thresholds in units of 10^-9 (1.0 = One).  With these units  *)
(* every product of scoreField is an exact integer, so the model computes  *)
(* the real-number value of the source's floating point expression.        *)
(*                                                                         *)
(* Text.  A text is a sequence of symbols; offsets are 0-based as in the   *)
(* source.  The symbols are the lexical items the modelled rules react to: *)
(*   "<"  a dangerous HTML tag (<script>),  "h" a CSS hiding pattern,       *)
(*   "i"  an instruction-override phrase,   "a" harmless text.             *)
(* An absent optional string and the empty string are both <<>>: the       *)
(* source tests them with the same truthiness checks.                      *)
(***************************************************************************)
EXTENDS Integers, Sequences, FiniteSets, TLC

VARIABLES
  event,          \* the CalendarEvent given to scanEvent
  ownerDomain,    \* calendarOwnerDomain argument ("" when not given)
  config,         \* ScoringConfig of the RiskScorer
  tiEnabled,      \* whether the engine was built with the threat-intel tier
  pc,             \* position of the running operation
  fieldResults,   \* scanEvent: FieldScanResult list built so far
  elapsed,        \* scanEvent: milliseconds since startTime
  result,         \* scanEvent: the EventScanResult (NoResult before the end)
  sanitizedEvent, \* scanEvent: the returned sanitized event
  answers,        \* scanEvent: what client.check answered for each field so far
  firstScan,      \* what an earlier scanEvent of the same event returned
  response,       \* proxy: the upstream tool result
  scanResults,    \* proxy: the scan results of the extracted events
  returned,       \* proxy: the tool result handed to the LLM
  annotations,    \* annotator: the notice built for the scan results (Null when none)
  cloudEnabled,   \* client: config.enabled
  entries,        \* cache: hash -> entry, NoEntry when absent
  now,            \* the clock (Date.now()), in hours
  lastCheck,      \* client: the last check, its result and its cloud requests
  cloudCached,    \* client: the hashes whose entry check wrote from a cloud response
  lastSet,        \* cache: hash -> the entry its last set wrote, while no feed import replaced it
  cacheReturn,    \* cache: the last get, importFeed or prune and what it returned
  quarantine,     \* quarantine directory: file path -> entry, NoFile when absent
  qReturn,        \* quarantine: the last operation and what it returned
  kv,             \* cloud store: KV key -> value with its expiration, NoKv when absent
  storeHistory,   \* cloud store: the last operation, the reports made, the hashes
                  \* whose stored entry has met the feed conditions
  fingerprint,    \* fingerprinter: the text last hashed and its two hashes
  lastSyncTime,   \* client: time of the last feed sync (0: never)
  syncReturn,     \* client: the last syncFeed, its request and what it returned
  loaded,         \* cache: the loaded flag of the instance
  cacheFile,      \* cache: the entries in threat-intel.json, hash -> entry
  ops             \* the operations in flight: id -> kind, arguments, position, locals

vars == <<event, ownerDomain, config, tiEnabled, pc, fieldResults, elapsed,
          result, sanitizedEvent, answers, firstScan, response, scanResults, returned,
          annotations, cloudEnabled, entries, now, lastCheck, cloudCached, lastSet, cacheReturn,
          quarantine, qReturn, kv, storeHistory, fingerprint,
          lastSyncTime, syncReturn, loaded, cacheFile, ops>>

engineVars == <<event, ownerDomain, config, tiEnabled, fieldResults, elapsed,
                result, sanitizedEvent, answers, firstScan>>
proxyVars == <<response, scanResults, returned, annotations>>
clientVars == <<cloudEnabled, entries, now, lastCheck, cloudCached, lastSet,
               cacheReturn>>
quarantineVars == <<quarantine, qReturn>>
storeVars == <<kv, storeHistory>>
opsVars == <<loaded, cacheFile, ops>>
otherVars == <<fingerprint, lastSyncTime, syncReturn, loaded, cacheFile, ops>>

\* The components that take no part in a specification stay as constructed.
OpsIdle ==
  /\ loaded = FALSE
  /\ cacheFile = <<>>
  /\ ops = <<>>

OtherIdle ==
  /\ fingerprint = [null |-> TRUE]
  /\ lastSyncTime = 0
  /\ syncReturn = [none |-> TRUE]
  /\ OpsIdle

----------------------------------------------------------------------------
(* Bounds of the model *)

MaxLen == 2
MaxEvents == 2
MaxTicks == 3
MaxWords == 3
MaxReports == 3
MaxChars == 3

----------------------------------------------------------------------------
(* Generic helpers *)

Min(a, b) == IF a <= b THEN a ELSE b
Max(a, b) == IF a >= b THEN a ELSE b

RECURSIVE SeqMax(_)
SeqMax(s) == IF Len(s) = 1 THEN s[1] ELSE Max(s[1], SeqMax(Tail(s)))

\* String.prototype.slice(from, to) on a sequence, 0-based, indices clamped.
Slice(s, from, to) ==
  LET f == Min(Max(from, 0), Len(s))
      t == Min(Max(to, 0), Len(s))
  IN  IF f >= t THEN <<>> ELSE SubSeq(s, f + 1, t)

\* s.includes(sub)
Contains(s, sub) ==
  \E k \in 0..(Len(s) - Len(sub)) : SubSeq(s, k + 1, k + Len(sub)) = sub

Chars == {"a", "<", "i", "h"}

TextsOfLen(n) == [1..n -> Chars]
Texts(n) == UNION {TextsOfLen(k) : k \in 0..n}

----------------------------------------------------------------------------
(* Detections and the three tiers *)

Tiers == <<"structural", "contextual", "threat-intel">>

MaxDetectionsPerField == 50
WindowAfterVerb == 60
MaxMatchedContent == 100

Detection(tier, ruleId, severity, matchedContent, matchOffset, matchLength, confidence) ==
  [tier |-> tier, ruleId |-> ruleId, severity |-> severity,
   matchedContent |-> matchedContent,
   matchOffset |-> matchOffset, matchLength |-> matchLength,
   confidence |-> confidence]

\* text.indexOf(c, from): the 0-based index of the first c at or after from, or -1.
RECURSIVE IndexFrom(_, _, _)
IndexFrom(text, c, from) ==
  IF from >= Len(text) THEN -1
  ELSE IF text[from + 1] = c THEN from
  ELSE IndexFrom(text, c, from + 1)

\* The matches of a one-symbol pattern (regex.exec loop), in text order.
RECURSIVE MatchesOf(_, _, _, _, _, _)
MatchesOf(text, c, from, ruleId, severity, confidence) ==
  LET p == IndexFrom(text, c, from)
  IN  IF p < 0 THEN <<>>
      ELSE <<Detection("structural", ruleId, severity, <<c>>, p, 1, confidence)>>
           \o MatchesOf(text, c, p + 1, ruleId, severity, confidence)

\* Variant whose pattern object keeps its position from one scan to the next.
detectHtmlInjection_SharedRegex(text) ==
  IF firstScan = [none |-> TRUE] THEN MatchesOf(text, "<", 0, "STRUCT-003", 900, 950)
  ELSE <<>>

\* STRUCT-003: dangerous tags.
detectHtmlInjection(text) == MatchesOf(text, "<", 0, "STRUCT-003", 900, 950)

\* STRUCT-009: CSS hiding patterns.
detectHiddenText(text) == MatchesOf(text, "h", 0, "STRUCT-009", 750, 800)

\* StructuralAnalyzer.analyze: the rules in source order, capped.
StructuralAnalyze(text) ==
  IF Len(text) = 0 THEN <<>>
  ELSE Slice(detectHtmlInjection(text) \o detectHiddenText(text),
             0, MaxDetectionsPerField)

\* The words of CTX-001 as symbols: "v" is the verb "ignore", "s" the verb
\* "skip", "n" a noun, "m" a modifier, and "i" the verb "ignore" together with
\* a noun that follows it at once.
OverrideVerbs == <<"ignore", "skip">>
HasVerb(c, verb) == \/ verb = "ignore" /\ c \in {"i", "v"}
                    \/ verb = "skip" /\ c = "s"
HasNoun(c) == c \in {"i", "n"}
HasModifier(c) == c = "m"

\* normalized.indexOf(verb)
RECURSIVE IndexOfVerb(_, _, _)
IndexOfVerb(text, verb, from) ==
  IF from >= Len(text) THEN -1
  ELSE IF HasVerb(text[from + 1], verb) THEN from
  ELSE IndexOfVerb(text, verb, from + 1)

\* The body of the loop over the verbs: the first occurrence of the verb
\* (indexOf), a noun in the window after it, a modifier in the same window;
\* the match runs from the verb to the end of the window.
OverrideOfVerb(text, verb) ==
  LET verbIdx == IndexOfVerb(text, verb, 0)
      window == Slice(text, verbIdx, verbIdx + 1 + WindowAfterVerb)
      hasModifier == \E k \in 1..Len(window) : HasModifier(window[k])
      matchStr == Slice(text, verbIdx, Min(verbIdx + 1 + WindowAfterVerb, Len(text)))
  IN  IF verbIdx < 0 \/ ~\E k \in 1..Len(window) : HasNoun(window[k]) THEN <<>>
      ELSE <<Detection("contextual", "CTX-001",
                       IF hasModifier THEN 800 ELSE 650,
                       Slice(matchStr, 0, MaxMatchedContent), verbIdx,
                       Min(Len(matchStr), MaxMatchedContent),
                       IF hasModifier THEN 900 ELSE 750)>>

\* CTX-001: one pass per verb, in the order of the verb list.
detectInstructionOverride(text) ==
  OverrideOfVerb(text, OverrideVerbs[1]) \o OverrideOfVerb(text, OverrideVerbs[2])

\* Variant of the multiplier that damps the severities of external organizers.
ContextMultiplier_ExternalDamped(context) ==
  LET ext == IF context.isExternalOrganizer THEN 90 ELSE 100
  IN  CASE context.fieldType = "description"   -> (ext * 120) \div 100
        [] context.fieldType = "attendee_name" -> (ext * 130) \div 100
        [] OTHER -> ext

\* The words of CTX-002 and CTX-003 as symbols: "e" is the imperative verb
\* "execute", "y" the system noun "system", "c" a shell command ("sudo rm"),
\* "f" a fenced code block.  Every symbol is one token of the tokenizer.
TokensAfterVerb == 5
MaxSnippetContent == 80

\* findTokenOffset: the first occurrence of the token in the text, 0 when none.
findTokenOffset(text, token, tokenIndex) ==
  IF IndexFrom(text, token, 0) >= 0 THEN IndexFrom(text, token, 0) ELSE 0

\* CTX-002: the loop over the tokens from index i on.
RECURSIVE ImperativeFrom(_, _)
ImperativeFrom(tokens, i) ==
  IF i >= Len(tokens) THEN <<>>
  ELSE LET window == Slice(tokens, i + 1, i + 1 + TokensAfterVerb)
           contextSnippet == Slice(tokens, i, i + 1 + TokensAfterVerb)
       IN  (IF tokens[i + 1] = "e" /\ \E k \in 1..Len(window) : window[k] = "y"
            THEN <<Detection("contextual", "CTX-002", 550,
                             Slice(contextSnippet, 0, MaxSnippetContent),
                             findTokenOffset(tokens, tokens[i + 1], i),
                             Len(contextSnippet), 700)>>
            ELSE <<>>)
           \o ImperativeFrom(tokens, i + 1)

detectImperativeSystem(text) == ImperativeFrom(text, 0)

\* text.replace(/```[\s\S]*?```/g, '')
withoutCodeBlocks(text) == SelectSeq(text, LAMBDA c : c # "f")

\* CTX-003: the matches of the shell pattern in the text without its code
\* blocks, each at its index in that text.
RECURSIVE ShellMatchesFrom(_, _)
ShellMatchesFrom(stripped, from) ==
  LET p == IndexFrom(stripped, "c", from)
  IN  IF p < 0 THEN <<>>
      ELSE <<Detection("contextual", "CTX-003", 750, <<"c">>, p, 1, 850)>>
           \o ShellMatchesFrom(stripped, p + 1)

detectShellCommands(text) == ShellMatchesFrom(withoutCodeBlocks(text), 0)

\* applyContextualWeighting: multiplier in hundredths.
ContextMultiplier(context) ==
  LET ext == IF context.isExternalOrganizer THEN 140 ELSE 100
  IN  CASE context.fieldType = "description"   -> (ext * 120) \div 100
        [] context.fieldType = "attendee_name" -> (ext * 130) \div 100
        [] OTHER -> ext

applyContextualWeighting(detections, context) ==
  [k \in 1..Len(detections) |->
     [detections[k] EXCEPT !.severity =
        Min((detections[k].severity * ContextMultiplier(context)) \div 100, 1000)]]

ContextualAnalyze(text, context) ==
  IF Len(text) = 0 THEN <<>>
  ELSE Slice(applyContextualWeighting(detectInstructionOverride(text)
                                        \o detectImperativeSystem(text)
                                        \o detectShellCommands(text), context),
             0, MaxDetectionsPerField)

\* ThreatIntelTier.createDetection, from a ThreatCheckResult.
createDetection(checkResult) ==
  LET baseSeverity == checkResult.confidence
      reportBonus == Min(checkResult.reportCount * 20, 150)
      severity == Min(baseSeverity + reportBonus, 1000)
  IN  Detection("threat-intel", "THREAT-001", severity,
                <<"Hash matched known threat">>, 0, 0, checkResult.confidence)

\* ThreatIntelTier.analyze, given what client.check answered.
ThreatIntelAnalyze(text, checkResult) ==
  IF Len(text) = 0 THEN <<>>
  ELSE IF ~checkResult.known THEN <<>>
  ELSE <<createDetection(checkResult)>>

----------------------------------------------------------------------------
(* RiskScorer *)

One == 1000 * 1000 * 1000
Cent == 10 * 1000 * 1000

DEFAULT_CONFIG ==
  [thresholdSuspicious |-> 30 * Cent, thresholdDangerous |-> 60 * Cent,
   thresholdCritical |-> 85 * Cent]

\* The custom thresholds of the scorer's unit test.
CUSTOM_CONFIG ==
  [thresholdSuspicious |-> 10 * Cent, thresholdDangerous |-> 40 * Cent,
   thresholdCritical |-> 70 * Cent]

TIER_WEIGHTS(tier) ==
  CASE tier = "structural" -> 40
    [] tier = "contextual" -> 45
    [] tier = "threat-intel" -> 15

\* c * (m / 100), exact for the multiples of 100 scoreField produces.
Times(c, m) == (c \div 100) * m

\* Variant with exclusive lower bounds.
scoreToLevel_Exclusive(cfg, score) ==
  IF score > cfg.thresholdCritical THEN "critical"
  ELSE IF score > cfg.thresholdDangerous THEN "dangerous"
  ELSE IF score > cfg.thresholdSuspicious THEN "suspicious"
  ELSE "safe"

scoreToLevel(cfg, score) ==
  IF score >= cfg.thresholdCritical THEN "critical"
  ELSE IF score >= cfg.thresholdDangerous THEN "dangerous"
  ELSE IF score >= cfg.thresholdSuspicious THEN "suspicious"
  ELSE "safe"

levelToAction(level) ==
  CASE level = "critical" -> "block"
    [] level = "dangerous" -> "redact"
    [] level = "suspicious" -> "flag"
    [] level = "safe" -> "pass"

TierDetections(detections, tier) ==
  SelectSeq(detections, LAMBDA d : d.tier = tier)

Severities(detections) == [k \in 1..Len(detections) |-> detections[k].severity]

\* Per-tier score: max severity plus the convergence bonus, capped at 1.0.
TierScore(tierDetections) ==
  Min(SeqMax(Severities(tierDetections))
        + Min((Len(tierDetections) - 1) * 50, 150), 1000)

\* tierScores.get(tier) ?? 0
TierScoreOrZero(detections, tier) ==
  IF Len(TierDetections(detections, tier)) = 0 THEN 0
  ELSE TierScore(TierDetections(detections, tier))

FiringTiers(detections) ==
  Cardinality({k \in 1..Len(Tiers) :
     /\ Len(TierDetections(detections, Tiers[k])) > 0
     /\ TierScore(TierDetections(detections, Tiers[k])) > 0})

\* Variant that grants the corroboration bonus to a single firing tier.
CompositeScore_BonusForOne(detections) ==
  LET weighted == TierScoreOrZero(detections, "structural") * TIER_WEIGHTS("structural")
                + TierScoreOrZero(detections, "contextual") * TIER_WEIGHTS("contextual")
                + TierScoreOrZero(detections, "threat-intel") * TIER_WEIGHTS("threat-intel")
      c0 == weighted * 10000
  IN  IF FiringTiers(detections) >= 1 THEN Min(Times(c0, 115), One) ELSE c0

CompositeScore(detections) ==
  LET weighted == TierScoreOrZero(detections, "structural") * TIER_WEIGHTS("structural")
                + TierScoreOrZero(detections, "contextual") * TIER_WEIGHTS("contextual")
                + TierScoreOrZero(detections, "threat-intel") * TIER_WEIGHTS("threat-intel")
      c0 == weighted * 10000
      c1 == IF FiringTiers(detections) >= 2 THEN Min(Times(c0, 115), One) ELSE c0
      c2 == IF FiringTiers(detections) >= 3 THEN Min(Times(c1, 110), One) ELSE c1
  IN  c2

scoreField(cfg, detections) ==
  IF Len(detections) = 0
  THEN [score |-> 0, level |-> "safe", action |-> "pass"]
  ELSE LET compositeScore == CompositeScore(detections)
           level == scoreToLevel(cfg, compositeScore)
       IN  [score |-> compositeScore, level |-> level, action |-> levelToAction(level)]

RiskScores(frs) == [k \in 1..Len(frs) |-> frs[k].riskScore]

\* Variant that takes the first field's score instead of the maximum.
scoreEvent_FirstField(cfg, frs) ==
  IF Len(frs) = 0
  THEN [score |-> 0, level |-> "safe", action |-> "pass"]
  ELSE LET firstScore == frs[1].riskScore
           level == scoreToLevel(cfg, firstScore)
       IN  [score |-> firstScore, level |-> level, action |-> levelToAction(level)]

scoreEvent(cfg, frs) ==
  IF Len(frs) = 0
  THEN [score |-> 0, level |-> "safe", action |-> "pass"]
  ELSE LET maxScore == SeqMax(RiskScores(frs))
           level == scoreToLevel(cfg, maxScore)
       IN  [score |-> maxScore, level |-> level, action |-> levelToAction(level)]

----------------------------------------------------------------------------
(* ContentRedactor *)

RedactionMarker(ruleId) ==
  <<"[", "R", "E", "D", "A", "C", "T", "E", "D", ":", ruleId, "]">>

BlockNotice(n) == <<"[GATEKEEP: Content blocked", n, "threat(s) detected]">>

\* Array.prototype.sort((a, b) => b.matchOffset - a.matchOffset): stable,
\* descending offset.  The place of the i-th element: after every element of
\* greater offset and every earlier element of equal offset.
PlaceByOffsetDesc(ds, i) ==
  1 + Cardinality({j \in 1..Len(ds) :
                     \/ ds[j].matchOffset > ds[i].matchOffset
                     \/ ds[j].matchOffset = ds[i].matchOffset /\ j < i})

SortByOffsetDesc(ds) ==
  [p \in 1..Len(ds) |-> ds[CHOOSE i \in 1..Len(ds) : PlaceByOffsetDesc(ds, i) = p]]

RECURSIVE SpliceAll(_, _)
SpliceAll(content, sorted) ==
  IF Len(sorted) = 0 THEN content
  ELSE LET det == Head(sorted)
           before == Slice(content, 0, det.matchOffset)
           after == Slice(content, det.matchOffset + det.matchLength, Len(content))
           spliced == before \o RedactionMarker(det.ruleId) \o after
       IN  \* each step's text is computed before the next step starts
           IF Len(spliced) >= 0 THEN SpliceAll(spliced, Tail(sorted)) ELSE spliced

redactDangerousContent(content, detections) ==
  SpliceAll(content,
    SortByOffsetDesc(SelectSeq(detections,
       LAMBDA d : d.matchLength > 0 /\ d.matchOffset >= 0)))

redact(originalContent, action, detections) ==
  CASE action = "block" -> BlockNotice(Len(detections))
    [] action = "redact" -> redactDangerousContent(originalContent, detections)
    [] OTHER -> originalContent

----------------------------------------------------------------------------
(* SanitizationEngine *)

maxTotalScanTime == 5000

NoEmail == <<>>
\* An email address as its parts around "@".
Emails == {NoEmail, <<"alice", "x.com">>, <<"mallory", "evil.com">>}

toLowerCase(str) == IF str = "X.COM" THEN "x.com" ELSE str

\* extractDomain: "" stands for undefined.
extractDomain(email) ==
  IF Len(email) = 0 THEN ""
  ELSE IF Len(email) = 2 THEN toLowerCase(email[2]) ELSE ""

IsExternal(ev, calendarOwnerDomain) ==
  /\ calendarOwnerDomain # ""
  /\ extractDomain(ev.organizer) # ""
  /\ extractDomain(ev.organizer) # calendarOwnerDomain

AttendeeFieldName(k) ==
  IF k = 1 THEN "attendees[0].displayName" ELSE "attendees[1].displayName"
AttachmentFieldName(k) ==
  IF k = 1 THEN "attachments[0].title" ELSE "attachments[1].title"

Field(fieldName, fieldType, content) ==
  [fieldName |-> fieldName, fieldType |-> fieldType, content |-> content]

NonEmpty(fields) == SelectSeq(fields, LAMBDA f : Len(f.content) > 0)

extractScannableFields(ev) ==
  NonEmpty(<<Field("summary", "title", ev.summary),
             Field("description", "description", ev.description),
             Field("location", "location", ev.location)>>)
  \o NonEmpty([k \in 1..Len(ev.attendees) |->
        Field(AttendeeFieldName(k), "attendee_name", ev.attendees[k].displayName)])
  \o NonEmpty([k \in 1..Len(ev.attachments) |->
        Field(AttachmentFieldName(k), "attachment", ev.attachments[k].title)])

ScanContext(ev, calendarOwnerDomain, field) ==
  [fieldName |-> field.fieldName, fieldType |-> field.fieldType,
   isExternalOrganizer |-> IsExternal(ev, calendarOwnerDomain)]

\* scanField.  tierDetections: what the threat-intel tier answered (<<>> when
\* the engine has no such tier).  sanitizedContent is present only for
\* redact and block; hasSanitized says whether it is.
scanField(cfg, content, context, tiDetections) ==
  LET allDetections == StructuralAnalyze(content)
                       \o ContextualAnalyze(content, context) \o tiDetections
      scored == scoreField(cfg, allDetections)
      kept == Slice(allDetections, 0, MaxDetectionsPerField)
      sanitize == scored.action \in {"redact", "block"}
  IN  [fieldName |-> context.fieldName,
       originalLength |-> Len(content),
       riskScore |-> scored.score,
       riskLevel |-> scored.level,
       action |-> scored.action,
       detections |-> kept,
       hasSanitized |-> sanitize,
       sanitizedContent |-> IF sanitize THEN redact(content, scored.action, kept)
                            ELSE <<>>]

\* Variant without the switch on fieldName.
Overwrites_AnyField(fr, fieldName) ==
  /\ fr.hasSanitized
  /\ fr.action \in {"redact", "block"}

Overwrites(fr, fieldName) ==
  /\ fr.fieldName = fieldName
  /\ fr.hasSanitized
  /\ fr.action \in {"redact", "block"}

\* The value a text field ends with after the loop over fieldResults: the
\* sanitized content of the last field result that overwrites it.
RECURSIVE SanitizedField(_, _, _)
SanitizedField(original, frs, fieldName) ==
  IF Len(frs) = 0 THEN original
  ELSE SanitizedField(
         IF Overwrites(Head(frs), fieldName) THEN Head(frs).sanitizedContent
         ELSE original,
         Tail(frs), fieldName)

applySanitization(ev, res) ==
  IF res.overallAction = "pass" THEN ev
  ELSE [ev EXCEPT
          !.summary = SanitizedField(ev.summary, res.fieldResults, "summary"),
          !.description = SanitizedField(ev.description, res.fieldResults, "description"),
          !.location = SanitizedField(ev.location, res.fieldResults, "location")]

EventResult(cfg, ev, calendarOwnerDomain, frs, ms) ==
  LET eventScore == scoreEvent(cfg, frs)
  IN  [eventId |-> ev.id,
       calendarId |-> ev.calendarId,
       organizerEmail |-> ev.organizer,
       isExternalOrganizer |-> IsExternal(ev, calendarOwnerDomain),
       overallRiskScore |-> eventScore.score,
       overallRiskLevel |-> eventScore.level,
       overallAction |-> eventScore.action,
       fieldResults |-> frs,
       scanDurationMs |-> ms]

----------------------------------------------------------------------------
(* QuarantineStore *)

DefaultTtlDays == 7

ttlHours == DefaultTtlDays * 24

\* Event ids as sequences of characters: "a" is a character that entryPath
\* keeps, "/" one that it replaces.
EventIds == {<<"a">>, <<"a", "/">>, <<"a", "_">>}

\* eventId.replace(/[^a-zA-Z0-9_-]/g, '_'); the file is <safeId>.json.
entryPath(eventId) ==
  [k \in DOMAIN eventId |-> IF eventId[k] \in {"a", "_"} THEN eventId[k] ELSE "_"]

QuarantinePaths == {entryPath(id) : id \in EventIds}

NoFile == [none |-> TRUE]
NoReturn == [none |-> TRUE]

----------------------------------------------------------------------------
(* scanEvent as a process: one step per scannable field, then the result *)

CloudCheckTimeoutMs == 5000

Negative == [known |-> FALSE, confidence |-> 0, reportCount |-> 0]

\* What client.check may hand to the tier: the negative result, or a record
\* the cache, the feed or the cloud supplied (read without validation).
CheckResults ==
  {Negative,
   [known |-> TRUE, confidence |-> 900, reportCount |-> 10],
   [known |-> TRUE, confidence |-> 1500, reportCount |-> 1],
   [known |-> TRUE, confidence |-> 0 - 500, reportCount |-> 0]}

\* A check and the time it took: an answer at once, or the negative result
\* after the cloud request timed out.
CheckOutcomes ==
  {[checkResult |-> r, ms |-> 0] : r \in CheckResults}
  \cup {[checkResult |-> Negative, ms |-> CloudCheckTimeoutMs]}

NoOutcome == [checkResult |-> Negative, ms |-> 0]

Profiles ==
  {[organizer |-> NoEmail, owner |-> "", calendarId |-> "",
    attendees |-> <<>>, attachments |-> <<>>],
   [organizer |-> <<"alice", "x.com">>, owner |-> "x.com", calendarId |-> "primary",
    attendees |-> <<[displayName |-> <<"i">>, email |-> <<"bob", "x.com">>]>>,
    attachments |-> <<>>],
   [organizer |-> <<"mallory", "evil.com">>, owner |-> "x.com", calendarId |-> "primary",
    attendees |-> <<>>,
    attachments |-> <<[title |-> <<"<">>]>>]}

\* summary, description, location of total length at most n.
TextTriples(n) ==
  UNION {{<<s, d, l>> : s \in TextsOfLen(a), d \in TextsOfLen(b), l \in TextsOfLen(c)} :
           <<a, b, c>> \in {t \in (0..n) \X (0..n) \X (0..n) : t[1] + t[2] + t[3] <= n}}

MakeEvent(id, t, p) ==
  [id |-> id, calendarId |-> p.calendarId, summary |-> t[1], description |-> t[2],
   location |-> t[3], organizer |-> p.organizer, attendees |-> p.attendees,
   attachments |-> p.attachments]

NoResult == [none |-> TRUE]
NoEvent == [none |-> TRUE]
NoResponse == [none |-> TRUE]
NoScan == [none |-> TRUE]

----------------------------------------------------------------------------
(* ThreatIntelCache and ThreatIntelClient.check *)

CacheTtlHours == 24
TickHours == CacheTtlHours \div 2

Hashes == {"c1", "c2", "s1"}

\* Two fingerprints with different content and the same structure.
Fingerprints ==
  {[contentHash |-> "c1", structuralHash |-> "s1"],
   [contentHash |-> "c2", structuralHash |-> "s1"]}

NoEntry == [none |-> TRUE]
NoCheck == [none |-> TRUE]
Null == [null |-> TRUE]

\* What one cloud request meets: a 2xx answer with a body, a non-2xx answer,
\* or a network error or timeout (fetch rejects).
CloudAnswers ==
  {[status |-> "ok", body |-> Negative],
   [status |-> "ok", body |-> [known |-> TRUE, confidence |-> 900, reportCount |-> 10]],
   [status |-> "non-ok", body |-> Negative],
   [status |-> "error", body |-> Negative]}

\* Variant of cloudCheck that takes a non-2xx answer as a known threat.
cloudCheck_NonOkKnown(answer) ==
  IF answer.status = "ok" THEN answer.body
  ELSE [known |-> TRUE, confidence |-> 900, reportCount |-> 10]

cloudCheck(answer) == IF answer.status = "ok" THEN answer.body ELSE Negative

\* Variant of get that never takes an entry as expired.
get_NoExpiry(ents, hash, t) ==
  [entries |-> ents,
   value |-> IF ents[hash] = NoEntry THEN Null ELSE ents[hash].result]

\* cache.get: the entries after the call (an expired entry is deleted) and
\* the value returned.
Expired(ents, hash, t) == ents[hash] # NoEntry /\ ents[hash].expiresAt < t

get(ents, hash, t) ==
  [entries |-> IF Expired(ents, hash, t) THEN [ents EXCEPT ![hash] = NoEntry] ELSE ents,
   value |-> IF ents[hash] = NoEntry \/ Expired(ents, hash, t) THEN Null
             ELSE ents[hash].result]

set(ents, hash, res, t) ==
  [ents EXCEPT ![hash] = [hash |-> hash, result |-> res, cachedAt |-> t,
                          expiresAt |-> t + CacheTtlHours]]

IsKnown(value) == value # Null /\ value.known

\* The results given to set.
SetResults ==
  {Negative,
   [known |-> TRUE, confidence |-> 900, reportCount |-> 10],
   [known |-> TRUE, confidence |-> 700, reportCount |-> 2]}

\* The entries of a threat feed.
FeedEntries ==
  {[hash |-> "c1", confidence |-> 900, reportCount |-> 10],
   [hash |-> "s1", confidence |-> 700, reportCount |-> 2]}

Feeds == UNION {[1..k -> FeedEntries] : k \in 0..2}

\* importFeed: every feed entry becomes a positive record.
RECURSIVE importFeed(_, _, _)
importFeed(ents, feedEntries, t) ==
  IF Len(feedEntries) = 0 THEN ents
  ELSE importFeed(
         [ents EXCEPT ![Head(feedEntries).hash] =
            [hash |-> Head(feedEntries).hash,
             result |-> [known |-> TRUE, confidence |-> Head(feedEntries).confidence,
                         reportCount |-> Head(feedEntries).reportCount],
             cachedAt |-> t, expiresAt |-> t + CacheTtlHours]],
         Tail(feedEntries), t)

\* prune: the entries afterwards and the number removed.
prune(ents, t) ==
  [entries |-> [h \in DOMAIN ents |-> IF Expired(ents, h, t) THEN NoEntry ELSE ents[h]],
   value |-> Cardinality({h \in DOMAIN ents : Expired(ents, h, t)})]


\* Variant of check that consults the content hash only.
check_ContentOnly(ents, enabled, t, fp, a1, a2) ==
  LET g1 == get(ents, fp.contentHash, t)
  IN  IF IsKnown(g1.value)
      THEN [entries |-> g1.entries, result |-> g1.value, requests |-> <<>>,
            written |-> {}]
      ELSE [entries |-> g1.entries, result |-> Negative, requests |-> <<>>,
            written |-> {}]

\* check(fingerprint) with the answers a1, a2 the cloud would give to the
\* content-hash and the structural-hash request: the entries afterwards,
\* the result, and the hashes requested from the cloud, in order.
check(ents, enabled, t, fp, a1, a2) ==
  LET g1 == get(ents, fp.contentHash, t)
      g2 == get(g1.entries, fp.structuralHash, t)
      e1 == set(g2.entries, fp.contentHash, cloudCheck(a1), t)
      e2 == set(e1, fp.structuralHash, cloudCheck(a2), t)
  IN  IF IsKnown(g1.value)
      THEN [entries |-> g1.entries, result |-> g1.value, requests |-> <<>>,
            written |-> {}]
      ELSE IF IsKnown(g2.value)
      THEN [entries |-> g2.entries, result |-> g2.value, requests |-> <<>>,
            written |-> {}]
      ELSE IF ~enabled
      THEN [entries |-> g2.entries, result |-> Negative, requests |-> <<>>,
            written |-> {}]
      ELSE IF a1.status = "error"
      THEN [entries |-> g2.entries, result |-> Negative,
            requests |-> <<fp.contentHash>>, written |-> {}]
      ELSE IF cloudCheck(a1).known
      THEN [entries |-> e1, result |-> cloudCheck(a1),
            requests |-> <<fp.contentHash>>, written |-> {fp.contentHash}]
      ELSE IF a2.status = "error"
      THEN [entries |-> e1, result |-> Negative,
            requests |-> <<fp.contentHash, fp.structuralHash>>,
            written |-> {fp.contentHash}]
      ELSE [entries |-> e2,
            result |-> IF cloudCheck(a2).known THEN cloudCheck(a2) ELSE Negative,
            requests |-> <<fp.contentHash, fp.structuralHash>>,
            written |-> {fp.contentHash, fp.structuralHash}]

\* The hashes of fp that hold an unexpired entry written from a cloud response.
LiveCloudCached(ents, cached, t, fp) ==
  {h \in {fp.contentHash, fp.structuralHash} :
     h \in cached /\ ents[h] # NoEntry /\ ~Expired(ents, h, t)}

\* What ensureLoaded finds in the cache file of an earlier session: nothing,
\* or entries that are still valid.
LoadedEntry(hash, res) ==
  [hash |-> hash, result |-> res, cachedAt |-> 0, expiresAt |-> CacheTtlHours]

CacheFiles ==
  {[h \in Hashes |-> NoEntry],
   [h \in Hashes |-> IF h = "s1"
                     THEN LoadedEntry(h, [known |-> TRUE, confidence |-> 700, reportCount |-> 2])
                     ELSE NoEntry],
   [h \in Hashes |-> IF h = "s1"
                     THEN LoadedEntry(h, [known |-> TRUE, confidence |-> 700, reportCount |-> 2])
                     ELSE IF h = "c1" THEN LoadedEntry(h, Negative)
                     ELSE LoadedEntry(h, [known |-> TRUE, confidence |-> 900, reportCount |-> 10])]}

InitClient ==
  /\ cloudEnabled \in BOOLEAN
  /\ entries \in CacheFiles
  /\ now = 0
  /\ lastCheck = NoCheck
  /\ cloudCached = {}
  /\ lastSet = [h \in Hashes |-> NoEntry]
  /\ cacheReturn = NoReturn
  /\ quarantine = [f \in QuarantinePaths |-> NoFile]
  /\ qReturn = NoReturn
  /\ kv = [key \in {"threat:", "feed:"} \X {"c1", "c2"} |-> [none |-> TRUE]]
  /\ storeHistory = [none |-> TRUE]
  /\ OtherIdle
  /\ event = NoEvent
  /\ ownerDomain = ""
  /\ config = DEFAULT_CONFIG
  /\ tiEnabled = TRUE
  /\ pc = "client"
  /\ fieldResults = <<>>
  /\ elapsed = 0
  /\ result = NoResult
  /\ sanitizedEvent = NoEvent
  /\ answers = <<>>
  /\ firstScan = NoScan
  /\ response = NoResponse
  /\ scanResults = <<>>
  /\ returned = NoResponse
  /\ annotations = [null |-> TRUE]

\* What a call check(fp) with outcome c leaves behind.
CheckEffects(fp, c) ==
  /\ entries' = c.entries
  /\ lastCheck' = [fingerprint |-> fp, result |-> c.result,
                   requests |-> c.requests,
                   cached |-> LiveCloudCached(entries, cloudCached, now, fp),
                   cachedContent |-> get(entries, fp.contentHash, now).value,
                   cachedStructural |-> get(entries, fp.structuralHash, now).value]
  /\ cloudCached' = {h \in cloudCached : c.entries[h] # NoEntry} \cup c.written
  /\ lastSet' = [h \in Hashes |-> IF h \in c.written THEN c.entries[h] ELSE lastSet[h]]

\* One call of client.check, from entry to return.
Check ==
  /\ pc = "client"
  /\ \E fp \in Fingerprints, a1 \in CloudAnswers, a2 \in CloudAnswers :
       LET c == check(entries, cloudEnabled, now, fp, a1, a2)
       IN  CheckEffects(fp, c)
  /\ UNCHANGED <<cloudEnabled, now, cacheReturn>>
  /\ UNCHANGED engineVars
  /\ UNCHANGED <<pc>>
  /\ UNCHANGED proxyVars
  /\ UNCHANGED quarantineVars
  /\ UNCHANGED storeVars
  /\ UNCHANGED otherVars

\* Time passes.
Tick ==
  /\ pc = "client"
  /\ now + TickHours <= MaxTicks * TickHours
  /\ now' = now + TickHours
  /\ UNCHANGED <<cloudEnabled, entries, lastCheck, cloudCached, lastSet, cacheReturn>>
  /\ UNCHANGED engineVars
  /\ UNCHANGED <<pc>>
  /\ UNCHANGED proxyVars
  /\ UNCHANGED quarantineVars
  /\ UNCHANGED storeVars
  /\ UNCHANGED otherVars

ClientFrame ==
  /\ UNCHANGED <<pc, cloudEnabled, now, lastCheck>>
  /\ UNCHANGED engineVars
  /\ UNCHANGED proxyVars
  /\ UNCHANGED quarantineVars
  /\ UNCHANGED storeVars
  /\ UNCHANGED otherVars

\* cache.set(hash, result)
CacheSet ==
  /\ pc = "client"
  /\ \E h \in Hashes, r \in SetResults :
       /\ entries' = set(entries, h, r, now)
       /\ lastSet' = [lastSet EXCEPT ![h] = set(entries, h, r, now)[h]]
       /\ cloudCached' = cloudCached \ {h}
  /\ UNCHANGED cacheReturn
  /\ ClientFrame

NextClient == Check \/ Tick

\* cache.get(hash)
CacheGet ==
  /\ pc = "client"
  /\ \E h \in Hashes :
       /\ entries' = get(entries, h, now).entries
       /\ cacheReturn' = [op |-> "get", hash |-> h, value |-> get(entries, h, now).value,
                          at |-> now, lastSet |-> lastSet[h]]
       /\ cloudCached' = {x \in cloudCached : get(entries, h, now).entries[x] # NoEntry}
  /\ UNCHANGED lastSet
  /\ ClientFrame

\* cache.importFeed(feedEntries)
ImportFeed ==
  /\ pc = "client"
  /\ \E feed \in Feeds :
       /\ entries' = importFeed(entries, feed, now)
       /\ lastSet' = [h \in Hashes |->
                        IF \E k \in 1..Len(feed) : feed[k].hash = h THEN NoEntry
                        ELSE lastSet[h]]
       /\ cloudCached' = {h \in cloudCached : \A k \in 1..Len(feed) : feed[k].hash # h}
       /\ cacheReturn' = [op |-> "importFeed", hash |-> "", value |-> Len(feed),
                          at |-> now, lastSet |-> NoEntry]
  /\ ClientFrame

\* cache.prune()
Prune ==
  /\ pc = "client"
  /\ entries' = prune(entries, now).entries
  /\ cacheReturn' = [op |-> "prune", hash |-> "", value |-> prune(entries, now).value,
                     at |-> now, lastSet |-> NoEntry]
  /\ cloudCached' = {h \in cloudCached : prune(entries, now).entries[h] # NoEntry}
  /\ UNCHANGED lastSet
  /\ ClientFrame

NextCache == CacheSet \/ CacheGet \/ ImportFeed \/ Prune \/ Tick

\* The cache alone: the client's cloud switch plays no part.
InitCache == InitClient /\ ~cloudEnabled /\ entries = [h \in Hashes |-> NoEntry]

SpecCache == InitCache /\ [][NextCache]_vars

SpecClient == InitClient /\ [][NextClient]_vars

----------------------------------------------------------------------------
(* ThreatIntelCache: operations that overlap in one process *)

\* Each get and set runs from await to await; between two awaits of one
\* operation the steps of the others may run.
MaxOps == 2
OpIds == 1..MaxOps

\* The calls made on the instance: set(h, r) and get(h).
CacheCalls ==
  {[kind |-> "set", hash |-> h, res |-> r] :
     h \in {"c1", "s1"}, r \in {Negative, [known |-> TRUE, confidence |-> 900,
                                            reportCount |-> 10]}}
  \cup {[kind |-> "get", hash |-> h, res |-> Negative] : h \in {"c1", "s1"}}

NoLocals == [h \in Hashes |-> NoEntry]

StartOf(call) ==
  [kind |-> call.kind, hash |-> call.hash, res |-> call.res, pc |-> "start",
   content |-> NoLocals, data |-> NoLocals, value |-> Null]

\* A new instance over a cache file; the calls have been made and none has
\* run yet.
InitOverlap ==
  /\ entries = [h \in Hashes |-> NoEntry]
  /\ loaded = FALSE
  /\ cacheFile \in CacheFiles
  /\ ops \in {[i \in OpIds |-> StartOf(c[i])] : c \in [OpIds -> CacheCalls]}
  /\ cloudEnabled = FALSE
  /\ now = 0
  /\ lastCheck = NoCheck
  /\ cloudCached = {}
  /\ lastSet = [h \in Hashes |-> NoEntry]
  /\ cacheReturn = NoReturn
  /\ quarantine = [f \in QuarantinePaths |-> NoFile]
  /\ qReturn = NoReturn
  /\ kv = [key \in {"threat:", "feed:"} \X {"c1", "c2"} |-> [none |-> TRUE]]
  /\ storeHistory = [none |-> TRUE]
  /\ fingerprint = Null
  /\ lastSyncTime = 0
  /\ syncReturn = NoReturn
  /\ event = NoEvent
  /\ ownerDomain = ""
  /\ config = DEFAULT_CONFIG
  /\ tiEnabled = TRUE
  /\ pc = "cache"
  /\ fieldResults = <<>>
  /\ elapsed = 0
  /\ result = NoResult
  /\ sanitizedEvent = NoEvent
  /\ answers = <<>>
  /\ firstScan = NoScan
  /\ response = NoResponse
  /\ scanResults = <<>>
  /\ returned = NoResponse
  /\ annotations = [null |-> TRUE]

OverlapFrame ==
  /\ UNCHANGED <<pc, cloudEnabled, now, lastCheck, cloudCached, lastSet, cacheReturn>>
  /\ UNCHANGED <<fingerprint, lastSyncTime, syncReturn>>
  /\ UNCHANGED engineVars
  /\ UNCHANGED proxyVars
  /\ UNCHANGED quarantineVars
  /\ UNCHANGED storeVars

\* ensureLoaded, up to its first await: if (this.loaded) return.
EnsureLoadedBegin(i) ==
  /\ ops[i].pc = "start"
  /\ ops' = [ops EXCEPT ![i].pc = IF loaded THEN "body" ELSE "reading"]
  /\ UNCHANGED <<entries, loaded, cacheFile>>
  /\ OverlapFrame

\* fs.promises.readFile(this.cacheFile) reads the file.
ReadFile(i) ==
  /\ ops[i].pc = "reading"
  /\ ops' = [ops EXCEPT ![i].pc = "read", ![i].content = cacheFile]
  /\ UNCHANGED <<entries, loaded, cacheFile>>
  /\ OverlapFrame

\* ensureLoaded after the read: every unexpired entry of the content is put
\* into this.entries, then this.loaded = true.
EnsureLoadedEnd(i) ==
  /\ ops[i].pc = "read"
  /\ entries' = [h \in Hashes |->
                   IF ops[i].content[h] # NoEntry /\ ops[i].content[h].expiresAt > now
                   THEN ops[i].content[h] ELSE entries[h]]
  /\ loaded' = TRUE
  /\ ops' = [ops EXCEPT ![i].pc = "body"]
  /\ UNCHANGED cacheFile
  /\ OverlapFrame

\* The part of get and set between ensureLoaded and persist.
Body(i) ==
  /\ ops[i].pc = "body"
  /\ IF ops[i].kind = "set"
     THEN /\ entries' = set(entries, ops[i].hash, ops[i].res, now)
          /\ ops' = [ops EXCEPT ![i].pc = "persist"]
     ELSE /\ entries' = get(entries, ops[i].hash, now).entries
          /\ ops' = [ops EXCEPT
                       ![i].pc = IF Expired(entries, ops[i].hash, now)
                                 THEN "persist" ELSE "done",
                       ![i].value = get(entries, ops[i].hash, now).value]
  /\ UNCHANGED <<loaded, cacheFile>>
  /\ OverlapFrame

\* persist after its mkdir: const data = [...this.entries.values()].
PersistSnapshot(i) ==
  /\ ops[i].pc = "persist"
  /\ ops' = [ops EXCEPT ![i].pc = "writing", ![i].data = entries]
  /\ UNCHANGED <<entries, loaded, cacheFile>>
  /\ OverlapFrame

\* fs.promises.writeFile(this.cacheFile, data) replaces the file; the
\* operation returns.
WriteFile(i) ==
  /\ ops[i].pc = "writing"
  /\ cacheFile' = ops[i].data
  /\ ops' = [ops EXCEPT ![i].pc = "done"]
  /\ UNCHANGED <<entries, loaded>>
  /\ OverlapFrame

NextOverlap ==
  \E i \in OpIds :
     \/ EnsureLoadedBegin(i)
     \/ ReadFile(i)
     \/ EnsureLoadedEnd(i)
     \/ Body(i)
     \/ PersistSnapshot(i)
     \/ WriteFile(i)

SpecOverlap == InitOverlap /\ [][NextOverlap]_vars

Init ==
  /\ \E t \in TextTriples(MaxLen), p \in Profiles :
        /\ event = MakeEvent("e1", t, p)
        /\ ownerDomain = p.owner
  /\ config \in {DEFAULT_CONFIG, CUSTOM_CONFIG}
  /\ tiEnabled \in BOOLEAN
  /\ pc = "scan"
  /\ fieldResults = <<>>
  /\ elapsed = 0
  /\ result = NoResult
  /\ sanitizedEvent = NoEvent
  /\ answers = <<>>
  /\ firstScan = NoScan
  /\ response = NoResponse
  /\ scanResults = <<>>
  /\ returned = NoResponse
  /\ annotations = [null |-> TRUE]
  /\ cloudEnabled = FALSE
  /\ entries = [h \in Hashes |-> NoEntry]
  /\ now = 0
  /\ lastCheck = NoCheck
  /\ cloudCached = {}
  /\ lastSet = [h \in Hashes |-> NoEntry]
  /\ cacheReturn = NoReturn
  /\ quarantine = [f \in QuarantinePaths |-> NoFile]
  /\ qReturn = NoReturn
  /\ kv = [key \in {"threat:", "feed:"} \X {"c1", "c2"} |-> [none |-> TRUE]]
  /\ storeHistory = [none |-> TRUE]
  /\ OtherIdle

\* One iteration of the loop over scannableFields.
ScanNextField ==
  /\ pc = "scan"
  /\ Len(fieldResults) < Len(extractScannableFields(event))
  /\ LET field == extractScannableFields(event)[Len(fieldResults) + 1]
         context == ScanContext(event, ownerDomain, field)
     IN  \E o \in (IF tiEnabled THEN CheckOutcomes ELSE {NoOutcome}) :
           /\ fieldResults' = Append(fieldResults,
                 scanField(config, field.content, context,
                    IF tiEnabled THEN ThreatIntelAnalyze(field.content, o.checkResult)
                    ELSE <<>>))
           /\ elapsed' = elapsed + o.ms
           /\ answers' = Append(answers, o.checkResult)
  /\ UNCHANGED <<event, ownerDomain, config, tiEnabled, pc, result, sanitizedEvent,
                 firstScan>>
  /\ UNCHANGED proxyVars
  /\ UNCHANGED clientVars
  /\ UNCHANGED quarantineVars
  /\ UNCHANGED storeVars
  /\ UNCHANGED otherVars

\* After the loop: scoreEvent, the result, applySanitization.
FinishScan ==
  /\ pc = "scan"
  /\ Len(fieldResults) = Len(extractScannableFields(event))
  /\ result' = EventResult(config, event, ownerDomain, fieldResults, elapsed)
  /\ sanitizedEvent' = applySanitization(event, result')
  /\ pc' = "done"
  /\ UNCHANGED <<event, ownerDomain, config, tiEnabled, fieldResults, elapsed,
                 answers, firstScan>>
  /\ UNCHANGED proxyVars
  /\ UNCHANGED clientVars
  /\ UNCHANGED quarantineVars
  /\ UNCHANGED storeVars
  /\ UNCHANGED otherVars

Next == ScanNextField \/ FinishScan

Spec == Init /\ [][Next]_vars

\* The engine as server.ts builds it: structural and contextual tiers only.
InitLocal == Init /\ ~tiEnabled

\* Titles made of override words: each word of the title is one symbol or a
\* stretch of filler as long as the window after a verb (one stretch at most).
OverrideWords == {"v", "s", "n", "m", "i", "a", "gap"}
WordText(w) == IF w = "gap" THEN [k \in 1..WindowAfterVerb |-> "a"] ELSE <<w>>
RECURSIVE Expand(_)
Expand(ws) == IF Len(ws) = 0 THEN <<>> ELSE WordText(ws[1]) \o Expand(Tail(ws))
OverrideTexts ==
  {Expand(ws) : ws \in {w \in UNION {[1..k -> OverrideWords] : k \in 1..MaxWords} :
                          Cardinality({k \in 1..Len(w) : w[k] = "gap"}) <= 1}}

\* The engine with the two local tiers, scanning an event whose title is a
\* text of override words.
InitOverride ==
  /\ event \in {MakeEvent("e1", <<t, <<>>, <<>>>>, CHOOSE p \in Profiles : p.owner = "") :
                   t \in OverrideTexts}
  /\ ownerDomain = ""
  /\ config = DEFAULT_CONFIG
  /\ tiEnabled = FALSE
  /\ pc = "scan"
  /\ fieldResults = <<>>
  /\ elapsed = 0
  /\ result = NoResult
  /\ sanitizedEvent = NoEvent
  /\ answers = <<>>
  /\ firstScan = NoScan
  /\ response = NoResponse
  /\ scanResults = <<>>
  /\ returned = NoResponse
  /\ annotations = [null |-> TRUE]
  /\ cloudEnabled = FALSE
  /\ entries = [h \in Hashes |-> NoEntry]
  /\ now = 0
  /\ lastCheck = NoCheck
  /\ cloudCached = {}
  /\ lastSet = [h \in Hashes |-> NoEntry]
  /\ cacheReturn = NoReturn
  /\ quarantine = [f \in QuarantinePaths |-> NoFile]
  /\ qReturn = NoReturn
  /\ kv = [key \in {"threat:", "feed:"} \X {"c1", "c2"} |-> [none |-> TRUE]]
  /\ storeHistory = [none |-> TRUE]
  /\ OtherIdle

SpecOverride == InitOverride /\ [][Next]_vars

\* Titles made of the symbols of the rules that report a range.
RangeChars == {"e", "y", "c", "f", "a", "<"}
RangeTexts == UNION {[1..k -> RangeChars] : k \in 1..MaxChars}

\* The engine with the two local tiers, scanning an event with such a title.
InitRanges ==
  /\ event \in {MakeEvent("e1", <<t, <<>>, <<>>>>, CHOOSE p \in Profiles : p.owner = "") :
                   t \in RangeTexts}
  /\ ownerDomain = ""
  /\ config = DEFAULT_CONFIG
  /\ tiEnabled = FALSE
  /\ pc = "scan"
  /\ fieldResults = <<>>
  /\ elapsed = 0
  /\ result = NoResult
  /\ sanitizedEvent = NoEvent
  /\ answers = <<>>
  /\ firstScan = NoScan
  /\ response = NoResponse
  /\ scanResults = <<>>
  /\ returned = NoResponse
  /\ annotations = [null |-> TRUE]
  /\ cloudEnabled = FALSE
  /\ entries = [h \in Hashes |-> NoEntry]
  /\ now = 0
  /\ lastCheck = NoCheck
  /\ cloudCached = {}
  /\ lastSet = [h \in Hashes |-> NoEntry]
  /\ cacheReturn = NoReturn
  /\ quarantine = [f \in QuarantinePaths |-> NoFile]
  /\ qReturn = NoReturn
  /\ kv = [key \in {"threat:", "feed:"} \X {"c1", "c2"} |-> [none |-> TRUE]]
  /\ storeHistory = [none |-> TRUE]
  /\ OtherIdle

SpecRanges == InitRanges /\ [][Next]_vars

\* Titles with about as many HTML tags as a field result keeps detections,
\* between other matches.
Repeat(c, n) == [k \in 1..n |-> c]

CappedTexts ==
  {p \o Repeat("<", n) \o q :
     p \in {<<>>, <<"c">>, <<"i">>, <<"a">>},
     n \in {MaxDetectionsPerField - 2, MaxDetectionsPerField},
     q \in {<<>>, <<"c">>, <<"h">>, <<"a">>}}

\* The engine with the two local tiers, scanning an event with such a title.
InitCapped ==
  /\ event \in {MakeEvent("e1", <<t, <<>>, <<>>>>, CHOOSE p \in Profiles : p.owner = "") :
                   t \in CappedTexts}
  /\ ownerDomain = ""
  /\ config \in {DEFAULT_CONFIG, CUSTOM_CONFIG}
  /\ tiEnabled = FALSE
  /\ pc = "scan"
  /\ fieldResults = <<>>
  /\ elapsed = 0
  /\ result = NoResult
  /\ sanitizedEvent = NoEvent
  /\ answers = <<>>
  /\ firstScan = NoScan
  /\ response = NoResponse
  /\ scanResults = <<>>
  /\ returned = NoResponse
  /\ annotations = [null |-> TRUE]
  /\ cloudEnabled = FALSE
  /\ entries = [h \in Hashes |-> NoEntry]
  /\ now = 0
  /\ lastCheck = NoCheck
  /\ cloudCached = {}
  /\ lastSet = [h \in Hashes |-> NoEntry]
  /\ cacheReturn = NoReturn
  /\ quarantine = [f \in QuarantinePaths |-> NoFile]
  /\ qReturn = NoReturn
  /\ kv = [key \in {"threat:", "feed:"} \X {"c1", "c2"} |-> [none |-> TRUE]]
  /\ storeHistory = [none |-> TRUE]
  /\ OtherIdle

SpecCapped == InitCapped /\ [][Next]_vars

SpecLocal == InitLocal /\ [][Next]_vars

\* A second scanEvent of the same event on the same engine, after the first
\* one returned.
ScanAgain ==
  /\ pc = "done"
  /\ firstScan = NoScan
  /\ firstScan' = [result |-> result, sanitizedEvent |-> sanitizedEvent,
                   answers |-> answers]
  /\ fieldResults' = <<>>
  /\ answers' = <<>>
  /\ elapsed' = 0
  /\ result' = NoResult
  /\ sanitizedEvent' = NoEvent
  /\ pc' = "scan"
  /\ UNCHANGED <<event, ownerDomain, config, tiEnabled>>
  /\ UNCHANGED proxyVars
  /\ UNCHANGED clientVars
  /\ UNCHANGED quarantineVars
  /\ UNCHANGED storeVars
  /\ UNCHANGED otherVars

NextRescan == ScanNextField \/ FinishScan \/ ScanAgain

\* The events scanned twice: a summary and a description, nothing else.
InitRescan ==
  /\ Init
  /\ event.location = <<>>
  /\ event.organizer = NoEmail

SpecRescan == InitRescan /\ [][NextRescan]_vars

----------------------------------------------------------------------------
(* ThreatIntelClient.syncFeed *)

\* config.syncIntervalMinutes, in hours: the client is configured to sync
\* once a day.
syncIntervalHours == 2 * TickHours

\* What GET /feed can meet: a 2xx answer with entries, a non-2xx answer, a
\* network error or timeout.
FeedAnswers ==
  {[status |-> "ok", entries |-> feed] : feed \in Feeds}
  \cup {[status |-> "nonok", entries |-> <<>>], [status |-> "error", entries |-> <<>>]}

\* cloudFeed: the entries of the answer, [] for a non-2xx answer; an error throws.
cloudFeed(answer) ==
  IF answer.status = "error" THEN [thrown |-> TRUE, entries |-> <<>>]
  ELSE [thrown |-> FALSE,
        entries |-> IF answer.status = "ok" THEN answer.entries ELSE <<>>]

\* syncFeed at time t: the cache and lastSyncTime afterwards, the returned
\* count and the requests sent (each with its since parameter).
syncFeed(ents, enabled, last, t, answer) ==
  LET unchanged(reqs) == [entries |-> ents, lastSyncTime |-> last, value |-> 0,
                          requests |-> reqs, imported |-> FALSE]
      since == IF last > 0 THEN last ELSE t - 24
      fetched == cloudFeed(answer)
  IN  IF ~enabled THEN unchanged(<<>>)
      ELSE IF t - last < syncIntervalHours THEN unchanged(<<>>)
      ELSE IF fetched.thrown THEN unchanged(<<since>>)
      ELSE [entries |-> importFeed(ents, fetched.entries, t),
            lastSyncTime |-> t,
            value |-> Len(fetched.entries),
            requests |-> <<since>>,
            imported |-> TRUE]

\* A client that has just been constructed, over a cache loaded from its
\* file; the clock is well past the sync interval.
InitSync ==
  /\ cloudEnabled \in BOOLEAN
  /\ entries \in CacheFiles
  /\ now = 2 * syncIntervalHours
  /\ lastSyncTime = 0
  /\ syncReturn = NoReturn
  /\ fingerprint = Null
  /\ OpsIdle
  /\ pc = "client"
  /\ lastCheck = NoCheck
  /\ cloudCached = {}
  /\ lastSet = [h \in Hashes |-> NoEntry]
  /\ cacheReturn = NoReturn
  /\ kv = [key \in {"threat:", "feed:"} \X {"c1", "c2"} |-> [none |-> TRUE]]
  /\ storeHistory = [none |-> TRUE]
  /\ quarantine = [f \in QuarantinePaths |-> NoFile]
  /\ qReturn = NoReturn
  /\ event = NoEvent
  /\ ownerDomain = ""
  /\ config = DEFAULT_CONFIG
  /\ tiEnabled = FALSE
  /\ fieldResults = <<>>
  /\ elapsed = 0
  /\ result = NoResult
  /\ sanitizedEvent = NoEvent
  /\ answers = <<>>
  /\ firstScan = NoScan
  /\ response = NoResponse
  /\ scanResults = <<>>
  /\ returned = NoResponse
  /\ annotations = Null

SyncFrame ==
  /\ UNCHANGED <<pc, cloudEnabled, lastCheck, cacheReturn, fingerprint>>
  /\ UNCHANGED opsVars
  /\ UNCHANGED engineVars
  /\ UNCHANGED proxyVars
  /\ UNCHANGED quarantineVars
  /\ UNCHANGED storeVars

\* One call of syncFeed, from entry to return.
SyncFeed ==
  /\ pc = "client"
  /\ \E answer \in FeedAnswers :
        LET r == syncFeed(entries, cloudEnabled, lastSyncTime, now, answer)
            fed(h) == r.imported /\ \E k \in 1..Len(answer.entries) :
                                       answer.entries[k].hash = h
        IN  /\ entries' = r.entries
            /\ lastSyncTime' = r.lastSyncTime
            /\ lastSet' = [h \in Hashes |-> IF fed(h) THEN NoEntry ELSE lastSet[h]]
            /\ cloudCached' = {h \in cloudCached : ~fed(h)}
            /\ syncReturn' = [value |-> r.value, requests |-> r.requests,
                              answer |-> IF Len(r.requests) = 0 THEN "none"
                                         ELSE answer.status,
                              at |-> now, lastSyncBefore |-> lastSyncTime,
                              lastSyncAfter |-> r.lastSyncTime,
                              cacheUnchanged |-> r.entries = entries]
  /\ UNCHANGED now
  /\ SyncFrame

SyncTick ==
  /\ pc = "client"
  /\ now + TickHours <= 2 * syncIntervalHours + MaxTicks * TickHours
  /\ now' = now + TickHours
  /\ UNCHANGED <<entries, lastSyncTime, lastSet, cloudCached, syncReturn>>
  /\ SyncFrame

NextSync == SyncFeed \/ SyncTick

SpecSync == InitSync /\ [][NextSync]_vars

----------------------------------------------------------------------------
(* scanEvent with the threat-intel tier resolved through the client *)

\* The fingerprint ThreatIntelTier.analyze computes for a field text.  The
\* texts scanned here all hold the same tag and nothing else that enters the
\* structural shape, so they share the structural hash; the two texts differ
\* and so do their content hashes.
FingerprintOf(text) ==
  [contentHash |-> IF Contains(text, <<"i">>) THEN "c1" ELSE "c2",
   structuralHash |-> "s1"]

\* Every cloud request the check sent met an error or a non-2xx answer.
CloudFailed(requests, a1, a2) ==
  /\ Len(requests) > 0
  /\ a1.status # "ok"
  /\ Len(requests) = 2 => a2.status # "ok"

InitViaClient ==
  /\ \E s \in {<<>>, <<"<">>}, d \in {<<>>, <<"i", "<">>} :
        event = MakeEvent("e1", <<s, d, <<>>>>, CHOOSE p \in Profiles : p.owner = "")
  /\ ownerDomain = ""
  /\ config \in {DEFAULT_CONFIG, CUSTOM_CONFIG}
  /\ tiEnabled = TRUE
  /\ cloudEnabled = TRUE
  /\ entries \in CacheFiles
  /\ pc = "scan"
  /\ fieldResults = <<>>
  /\ elapsed = 0
  /\ result = NoResult
  /\ sanitizedEvent = NoEvent
  /\ answers = <<>>
  /\ firstScan = NoScan
  /\ response = NoResponse
  /\ scanResults = <<>>
  /\ returned = NoResponse
  /\ annotations = [null |-> TRUE]
  /\ now \in {0, MaxTicks * TickHours}
  /\ lastCheck = NoCheck
  /\ cloudCached = {}
  /\ lastSet = [h \in Hashes |-> NoEntry]
  /\ cacheReturn = NoReturn
  /\ quarantine = [f \in QuarantinePaths |-> NoFile]
  /\ qReturn = NoReturn
  /\ kv = [key \in {"threat:", "feed:"} \X {"c1", "c2"} |-> [none |-> TRUE]]
  /\ storeHistory = [none |-> TRUE]
  /\ OtherIdle

\* One iteration of the loop over scannableFields, the third tier calling
\* client.check.
ScanNextFieldViaClient ==
  /\ pc = "scan"
  /\ Len(fieldResults) < Len(extractScannableFields(event))
  /\ LET field == extractScannableFields(event)[Len(fieldResults) + 1]
         context == ScanContext(event, ownerDomain, field)
         fp == FingerprintOf(field.content)
     IN  \E a1 \in CloudAnswers, a2 \in CloudAnswers :
           LET c == check(entries, cloudEnabled, now, fp, a1, a2)
           IN  /\ CheckEffects(fp, c)
               /\ fieldResults' = Append(fieldResults,
                     scanField(config, field.content, context,
                               ThreatIntelAnalyze(field.content, c.result)))
               /\ answers' = Append(answers,
                     [checkResult |-> c.result,
                      cloudFailed |-> CloudFailed(c.requests, a1, a2),
                      cachedKnown |->
                        \/ IsKnown(get(entries, fp.contentHash, now).value)
                        \/ IsKnown(get(entries, fp.structuralHash, now).value)])
               /\ elapsed' = elapsed +
                     (IF \E k \in 1..Len(c.requests) : <<a1, a2>>[k].status = "error"
                      THEN CloudCheckTimeoutMs ELSE 0)
  /\ UNCHANGED <<event, ownerDomain, config, tiEnabled, pc, result, sanitizedEvent,
                 firstScan>>
  /\ UNCHANGED <<cloudEnabled, now, cacheReturn>>
  /\ UNCHANGED proxyVars
  /\ UNCHANGED quarantineVars
  /\ UNCHANGED storeVars
  /\ UNCHANGED otherVars

NextViaClient == ScanNextFieldViaClient \/ FinishScan

SpecViaClient == InitViaClient /\ [][NextViaClient]_vars

----------------------------------------------------------------------------
(* EventFingerprinter: the two hashes of a text *)

\* The characters of a hashed text: lower and upper case letters, a space, a
\* newline ("nl"), the opening of a tag and the letter sharp s ("sz"), whose
\* upper case is the two letters "SS".
FpChars == {"a", "A", " ", "nl", "<", "sz"}
FpTexts == UNION {[1..k -> FpChars] : k \in 0..MaxChars}

\* String.prototype.toLowerCase / toUpperCase, character by character.
lowerChar(c) == CASE c = "A" -> "a" [] c = "S" -> "s" [] OTHER -> c
upperChar(c) == CASE c = "a" -> <<"A">> [] c = "s" -> <<"S">>
                  [] c = "sz" -> <<"S", "S">> [] OTHER -> <<c>>

lower(text) == [k \in 1..Len(text) |-> lowerChar(text[k])]

RECURSIVE upper(_)
upper(text) == IF Len(text) = 0 THEN <<>> ELSE upperChar(Head(text)) \o upper(Tail(text))

IsSpace(c) == c \in {" ", "nl"}
IsLetter(c) == c \in {"a", "A", "s", "S"}

\* replace(/\s+/g, ' '): every run of whitespace becomes one space.
RECURSIVE collapse_ws(_)
collapse_ws(text) ==
  IF Len(text) = 0 THEN <<>>
  ELSE IF IsSpace(Head(text))
       THEN IF Len(text) > 1 /\ IsSpace(text[2]) THEN collapse_ws(Tail(text))
            ELSE <<" ">> \o collapse_ws(Tail(text))
       ELSE <<Head(text)>> \o collapse_ws(Tail(text))

RECURSIVE trimStart(_)
trimStart(text) ==
  IF Len(text) > 0 /\ IsSpace(Head(text)) THEN trimStart(Tail(text)) ELSE text

RECURSIVE trimEnd(_)
trimEnd(text) ==
  IF Len(text) > 0 /\ IsSpace(text[Len(text)])
  THEN trimEnd(SubSeq(text, 1, Len(text) - 1)) ELSE text

trim(text) == trimEnd(trimStart(text))

\* computeContentHash: the digest is taken as the text it is computed from.
computeContentHash(text) == [sha256 |-> trim(collapse_ws(lower(text)))]

lenBucket(len) ==
  IF len < 100 THEN "0-100" ELSE IF len < 500 THEN "100-500"
  ELSE IF len < 2000 THEN "500-2000" ELSE IF len < 10000 THEN "2000-10000"
  ELSE "10000+"

\* The name of the tag opened at position p (1-based) of the text: the
\* letters after "<" and any whitespace, in lower case; <<>> when none.
RECURSIVE LettersFrom(_, _)
LettersFrom(text, p) ==
  IF p <= Len(text) /\ IsLetter(text[p])
  THEN <<lowerChar(text[p])>> \o LettersFrom(text, p + 1) ELSE <<>>

RECURSIVE SkipSpace(_, _)
SkipSpace(text, p) ==
  IF p <= Len(text) /\ IsSpace(text[p]) THEN SkipSpace(text, p + 1) ELSE p

htmlTags(text) ==
  {LettersFrom(text, SkipSpace(text, p + 1)) : p \in {q \in 1..Len(text) : text[q] = "<"}}
    \ {<<>>}

\* extractShape.  The texts hold no base64 block, zero-width character, URL,
\* percent escape or script pattern, so those counts are 0.
extractShape(text) ==
  [len |-> lenBucket(Len(text)),
   b64 |-> 0,
   html |-> htmlTags(text),
   zwc |-> 0,
   urls |-> 0,
   lines |-> Cardinality({k \in 1..Len(text) : text[k] = "nl"}) + 1,
   encoding |-> 0,
   scripts |-> 0]

\* computeStructuralHash: the digest is taken as the shape it is computed from.
computeStructuralHash(text) == [sha256 |-> extractShape(text)]

InitFingerprint ==
  /\ fingerprint \in {[text |-> t, contentHash |-> Null, structuralHash |-> Null] :
                         t \in FpTexts}
  /\ pc = "fingerprint"
  /\ lastSyncTime = 0
  /\ syncReturn = NoReturn
  /\ OpsIdle
  /\ kv = [key \in {"threat:", "feed:"} \X {"c1", "c2"} |-> [none |-> TRUE]]
  /\ storeHistory = [none |-> TRUE]
  /\ now = 0
  /\ quarantine = [f \in QuarantinePaths |-> NoFile]
  /\ qReturn = NoReturn
  /\ cloudEnabled = FALSE
  /\ entries = [h \in Hashes |-> NoEntry]
  /\ lastCheck = NoCheck
  /\ cloudCached = {}
  /\ lastSet = [h \in Hashes |-> NoEntry]
  /\ cacheReturn = NoReturn
  /\ event = NoEvent
  /\ ownerDomain = ""
  /\ config = DEFAULT_CONFIG
  /\ tiEnabled = FALSE
  /\ fieldResults = <<>>
  /\ elapsed = 0
  /\ result = NoResult
  /\ sanitizedEvent = NoEvent
  /\ answers = <<>>
  /\ firstScan = NoScan
  /\ response = NoResponse
  /\ scanResults = <<>>
  /\ returned = NoResponse
  /\ annotations = Null

\* The two hashes of the text, as fingerprint() computes them.
ComputeHashes ==
  /\ pc = "fingerprint"
  /\ fingerprint.contentHash = Null
  /\ fingerprint' = [fingerprint EXCEPT
                       !.contentHash = computeContentHash(fingerprint.text),
                       !.structuralHash = computeStructuralHash(fingerprint.text)]
  /\ UNCHANGED <<pc, cloudEnabled, entries, now, lastCheck, cloudCached, lastSet,
                 cacheReturn>>
  /\ UNCHANGED engineVars
  /\ UNCHANGED proxyVars
  /\ UNCHANGED quarantineVars
  /\ UNCHANGED storeVars
  /\ UNCHANGED <<lastSyncTime, syncReturn>>
  /\ UNCHANGED opsVars

NextFingerprint == ComputeHashes

SpecFingerprint == InitFingerprint /\ [][NextFingerprint]_vars

----------------------------------------------------------------------------
(* Cloud service: FingerprintStore over a KV namespace *)

KV_PREFIX == "threat:"
FEED_PREFIX == "feed:"
CONFIDENCE_THRESHOLD == 600
MIN_REPORTS_FOR_FEED == 2
KvTtlDays == 30
expirationTtl == KvTtlDays * 24

StoreHashes == <<"c1", "c2">>
KvKeys == {KV_PREFIX, FEED_PREFIX} \X {StoreHashes[k] : k \in 1..Len(StoreHashes)}
NoKv == [none |-> TRUE]

\* kv.get(key, 'json'): null for a key that is absent or past its expiration.
kvGet(kvs, key, t) ==
  IF kvs[key] = NoKv \/ kvs[key].expiresAt <= t THEN Null ELSE kvs[key].entry

\* kv.put(key, value, {expirationTtl})
kvPut(kvs, key, entry, t) ==
  [kvs EXCEPT ![key] = [entry |-> entry, expiresAt |-> t + expirationTtl]]

\* calculateConfidence, in thousandths.
calculateConfidence(reportCount, riskScore) ==
  LET reportFactor == Min(reportCount * 100, 500)
      riskFactor == (riskScore * 500) \div 1000
  IN  Min(reportFactor + riskFactor, 1000)

\* [...new Set([...a, ...b])]
RECURSIVE Dedupe(_)
Dedupe(ids) ==
  IF Len(ids) = 0 THEN <<>>
  ELSE LET front == Dedupe(SubSeq(ids, 1, Len(ids) - 1))
       IN  IF \E k \in 1..Len(front) : front[k] = ids[Len(ids)] THEN front
           ELSE Append(front, ids[Len(ids)])

deriveCategory(patternIds) ==
  LET has(id) == \E k \in 1..Len(patternIds) : patternIds[k] = id
  IN  IF has("CTX-001") THEN "prompt-injection"
      ELSE IF has("STRUCT-003") THEN "xss-injection"
      ELSE IF has("STRUCT-009") THEN "structural-attack"
      ELSE "unknown"

\* Variant of the feed condition that looks at the report count only.
MeetsFeedThreshold_CountOnly(entry) == entry.reportCount >= MIN_REPORTS_FOR_FEED

\* The condition of recordReport for adding the updated entry to the feed.
MeetsFeedThreshold(entry) ==
  entry.reportCount >= MIN_REPORTS_FOR_FEED /\ entry.confidence >= CONFIDENCE_THRESHOLD

addToFeed(kvs, entry, t) == kvPut(kvs, <<FEED_PREFIX, entry.hash>>, entry, t)

\* recordReport at time t: the KV namespace afterwards and the returned entry.
\* organizerDomain "" stands for undefined.
recordReport(kvs, t, hash, patternIds, riskScore, organizerDomain) ==
  LET key == <<KV_PREFIX, hash>>
      existing == kvGet(kvs, key, t)
      updatedPatterns == Dedupe(existing.patternIds \o patternIds)
      updated == [existing EXCEPT
                    !.reportCount = existing.reportCount + 1,
                    !.lastSeen = t,
                    !.patternIds = updatedPatterns,
                    !.confidence = calculateConfidence(existing.reportCount + 1, riskScore),
                    !.organizerDomain = IF organizerDomain # "" THEN organizerDomain
                                        ELSE existing.organizerDomain,
                    !.category = deriveCategory(updatedPatterns)]
      entry == [hash |-> hash, hashType |-> "content", reportCount |-> 1,
                confidence |-> calculateConfidence(1, riskScore),
                firstSeen |-> t, lastSeen |-> t, patternIds |-> patternIds,
                organizerDomain |-> organizerDomain,
                category |-> deriveCategory(patternIds)]
  IN  IF existing # Null
      THEN [kv |-> IF MeetsFeedThreshold(updated)
                   THEN addToFeed(kvPut(kvs, key, updated, t), updated, t)
                   ELSE kvPut(kvs, key, updated, t),
            value |-> updated]
      ELSE [kv |-> kvPut(kvs, key, entry, t), value |-> entry]

\* getFeedSince: the live feed keys in key order, those seen after since
\* (a timestamp [time |-> n], or Null: from time 0).
RECURSIVE FeedFrom(_, _, _, _)
FeedFrom(kvs, k, sinceTime, t) ==
  IF k > Len(StoreHashes) THEN <<>>
  ELSE LET entry == kvGet(kvs, <<FEED_PREFIX, StoreHashes[k]>>, t)
       IN  (IF entry # Null /\ entry.lastSeen > sinceTime THEN <<entry>> ELSE <<>>)
           \o FeedFrom(kvs, k + 1, sinceTime, t)

getFeedSince(kvs, since, t) ==
  FeedFrom(kvs, 1, IF since = Null THEN 0 ELSE since.time, t)

ReportedRiskScores == {400, 800}
\* The reports sent: the pattern ids with or without an organizer domain.
ReportBodies == {[patternIds |-> <<"CTX-001">>, organizerDomain |-> ""],
                 [patternIds |-> <<"STRUCT-009">>, organizerDomain |-> "evil.com"]}

StoreFrame ==
  /\ UNCHANGED <<pc, cloudEnabled, entries, lastCheck, cloudCached, lastSet,
                 cacheReturn>>
  /\ UNCHANGED engineVars
  /\ UNCHANGED proxyVars
  /\ UNCHANGED quarantineVars
  /\ UNCHANGED otherVars

\* The store of a service that has been running for a while: the clock is
\* past zero and no key is stored.
InitStore ==
  /\ kv = [key \in KvKeys |-> NoKv]
  /\ storeHistory = [last |-> NoReturn, reports |-> 0, everMet |-> {},
                     reportsOf |-> [k \in 1..Len(StoreHashes) |-> 0]]
  /\ OtherIdle
  /\ now = expirationTtl \div 2
  /\ pc = "store"
  /\ quarantine = [f \in QuarantinePaths |-> NoFile]
  /\ qReturn = NoReturn
  /\ cloudEnabled = FALSE
  /\ entries = [h \in Hashes |-> NoEntry]
  /\ lastCheck = NoCheck
  /\ cloudCached = {}
  /\ lastSet = [h \in Hashes |-> NoEntry]
  /\ cacheReturn = NoReturn
  /\ event = NoEvent
  /\ ownerDomain = ""
  /\ config = DEFAULT_CONFIG
  /\ tiEnabled = FALSE
  /\ fieldResults = <<>>
  /\ elapsed = 0
  /\ result = NoResult
  /\ sanitizedEvent = NoEvent
  /\ answers = <<>>
  /\ firstScan = NoScan
  /\ response = NoResponse
  /\ scanResults = <<>>
  /\ returned = NoResponse
  /\ annotations = Null

\* POST /report: one call of recordReport.
RecordReport ==
  /\ pc = "store"
  /\ storeHistory.reports < MaxReports
  /\ \E k \in 1..Len(StoreHashes), body \in ReportBodies, rs \in ReportedRiskScores :
        LET r == recordReport(kv, now, StoreHashes[k], body.patternIds, rs,
                              body.organizerDomain)
            stored == kvGet(r.kv, <<KV_PREFIX, StoreHashes[k]>>, now)
        IN  /\ kv' = r.kv
            /\ storeHistory' =
                  [last |-> [op |-> "recordReport", hash |-> StoreHashes[k],
                             value |-> r.value, stored |-> stored,
                             feed |-> getFeedSince(r.kv, Null, now), at |-> now],
                   reports |-> storeHistory.reports + 1,
                   everMet |-> storeHistory.everMet \cup
                     (IF stored.reportCount >= 2 /\ stored.confidence >= 600
                      THEN {StoreHashes[k]} ELSE {}),
                   reportsOf |-> [storeHistory.reportsOf EXCEPT ![k] = @ + 1]]
  /\ UNCHANGED now
  /\ StoreFrame

\* GET /feed: one call of getFeedSince.
GetFeed ==
  /\ pc = "store"
  /\ \E all \in BOOLEAN :
        LET since == IF all THEN Null ELSE [time |-> now - expirationTtl \div 2]
        IN  storeHistory' = [storeHistory EXCEPT
                               !.last = [op |-> "getFeedSince", since |-> since,
                                         value |-> getFeedSince(kv, since, now),
                                         at |-> now]]
  /\ UNCHANGED <<kv, now>>
  /\ StoreFrame

StoreTick ==
  /\ pc = "store"
  /\ now + (expirationTtl \div 2) <= (MaxTicks + 1) * (expirationTtl \div 2)
  /\ now' = now + (expirationTtl \div 2)
  /\ UNCHANGED storeVars
  /\ UNCHANGED otherVars
  /\ StoreFrame

NextStore == RecordReport \/ GetFeed \/ StoreTick

SpecStore == InitStore /\ [][NextStore]_vars

----------------------------------------------------------------------------
(* Cloud service: POST /report requests that overlap *)

\* The accepted requests: a content hash, a structural hash, pattern ids and
\* a risk score.
ReportRequests ==
  {[contentHash |-> StoreHashes[k], structuralHash |-> StoreHashes[3 - k],
    patternIds |-> body.patternIds, organizerDomain |-> body.organizerDomain,
    riskScore |-> rs] :
     k \in 1..2, body \in ReportBodies, rs \in ReportedRiskScores}

\* A request that has passed validation and is about to record its content
\* hash; existing is what its kv.get returned.
StartOfRequest(req) ==
  [request |-> req, pc |-> "getContent", existing |-> NoKv]

\* Several workers serve requests over one KV namespace.
InitReports ==
  /\ kv = [key \in KvKeys |-> NoKv]
  /\ storeHistory = [last |-> NoReturn, reports |-> 0, everMet |-> {},
                     reportsOf |-> [k \in 1..Len(StoreHashes) |-> 0]]
  /\ fingerprint = Null
  /\ lastSyncTime = 0
  /\ syncReturn = NoReturn
  /\ loaded = FALSE
  /\ cacheFile = <<>>
  /\ ops \in {[i \in OpIds |-> StartOfRequest(q[i])] : q \in [OpIds -> ReportRequests]}
  /\ now = expirationTtl \div 2
  /\ pc = "store"
  /\ quarantine = [f \in QuarantinePaths |-> NoFile]
  /\ qReturn = NoReturn
  /\ cloudEnabled = FALSE
  /\ entries = [h \in Hashes |-> NoEntry]
  /\ lastCheck = NoCheck
  /\ cloudCached = {}
  /\ lastSet = [h \in Hashes |-> NoEntry]
  /\ cacheReturn = NoReturn
  /\ event = NoEvent
  /\ ownerDomain = ""
  /\ config = DEFAULT_CONFIG
  /\ tiEnabled = FALSE
  /\ fieldResults = <<>>
  /\ elapsed = 0
  /\ result = NoResult
  /\ sanitizedEvent = NoEvent
  /\ answers = <<>>
  /\ firstScan = NoScan
  /\ response = NoResponse
  /\ scanResults = <<>>
  /\ returned = NoResponse
  /\ annotations = Null

ReportsFrame ==
  /\ UNCHANGED <<pc, cloudEnabled, entries, now, lastCheck, cloudCached, lastSet,
                 cacheReturn, storeHistory>>
  /\ UNCHANGED <<fingerprint, lastSyncTime, syncReturn, loaded, cacheFile>>
  /\ UNCHANGED engineVars
  /\ UNCHANGED proxyVars
  /\ UNCHANGED quarantineVars

\* The hash a request is recording at its position.
HashAt(op) ==
  IF op.pc \in {"getContent", "putContent"} THEN op.request.contentHash
  ELSE op.request.structuralHash

\* recordReport up to its first await: kv.get(key, 'json').
KvGet(i) ==
  /\ ops[i].pc \in {"getContent", "getStructural"}
  /\ ops' = [ops EXCEPT
               ![i].existing = kv[<<KV_PREFIX, HashAt(ops[i])>>],
               ![i].pc = IF ops[i].pc = "getContent" THEN "putContent"
                         ELSE "putStructural"]
  /\ UNCHANGED kv
  /\ ReportsFrame

\* recordReport after the get: the entry built from what the get returned is
\* put, and put into the feed when it meets the threshold.
KvPut(i) ==
  /\ ops[i].pc \in {"putContent", "putStructural"}
  /\ LET asRead == [kv EXCEPT ![<<KV_PREFIX, HashAt(ops[i])>>] = ops[i].existing]
     IN  kv' = recordReport(asRead, now, HashAt(ops[i]), ops[i].request.patternIds,
                            ops[i].request.riskScore,
                            ops[i].request.organizerDomain).kv
  /\ ops' = [ops EXCEPT
               ![i].pc = IF ops[i].pc = "putContent" THEN "getStructural"
                         ELSE "done"]
  /\ ReportsFrame

NextReports == \E i \in OpIds : KvGet(i) \/ KvPut(i)

SpecReports == InitReports /\ [][NextReports]_vars

----------------------------------------------------------------------------
(* QuarantineStore: the operations *)

\* The scan results and original fields handed to store.
StoreInputs ==
  {[eventId |-> id, overallRiskLevel |-> lv,
    overallAction |-> IF lv = "critical" THEN "block" ELSE "redact",
    originalFields |-> [summary |-> sm]] :
     id \in EventIds, lv \in {"dangerous", "critical"}, sm \in {<<"i", "<">>, <<"<">>}}

quarantineStore(files, scanResult, originalFields, t) ==
  [files EXCEPT ![entryPath(scanResult.eventId)] =
     [eventId |-> scanResult.eventId,
      quarantinedAt |-> t,
      expiresAt |-> t + ttlHours,
      riskLevel |-> scanResult.overallRiskLevel,
      action |-> scanResult.overallAction,
      originalFields |-> originalFields]]

quarantineDelete(files, eventId) ==
  [files EXCEPT ![entryPath(eventId)] = NoFile]

\* new Date(entry.expiresAt) < new Date()
EntryExpired(entry, t) == entry.expiresAt < t

\* Variant of get that leaves the expired file in place.
quarantineGet_KeepFile(files, eventId, t) ==
  [files |-> files,
   value |-> IF files[entryPath(eventId)] = NoFile
                \/ EntryExpired(files[entryPath(eventId)], t)
             THEN Null ELSE files[entryPath(eventId)]]

\* get: the directory afterwards and the value returned.
quarantineGet(files, eventId, t) ==
  IF files[entryPath(eventId)] = NoFile
  THEN [files |-> files, value |-> Null]
  ELSE IF EntryExpired(files[entryPath(eventId)], t)
  THEN [files |-> quarantineDelete(files, eventId), value |-> Null]
  ELSE [files |-> files, value |-> files[entryPath(eventId)]]

meetsMinRisk(actual, min) ==
  LET levels == <<"safe", "suspicious", "dangerous", "critical">>
      IndexOf(x) == CHOOSE k \in 1..4 : levels[k] = x
  IN  IndexOf(actual) >= IndexOf(min)

\* entries.sort by quarantinedAt descending (stable).
RECURSIVE InsertByTimeDesc(_, _)
InsertByTimeDesc(sorted, e) ==
  IF Len(sorted) = 0 THEN <<e>>
  ELSE IF Head(sorted).quarantinedAt >= e.quarantinedAt
       THEN <<Head(sorted)>> \o InsertByTimeDesc(Tail(sorted), e)
       ELSE <<e>> \o sorted

RECURSIVE SortByTimeDesc(_)
SortByTimeDesc(es) ==
  IF Len(es) = 0 THEN <<>>
  ELSE InsertByTimeDesc(SortByTimeDesc(SubSeq(es, 1, Len(es) - 1)), es[Len(es)])

\* The loop of list over the directory listing dir (a sequence of paths):
\* the directory afterwards and the entries collected.  minRiskLevel "" is
\* the absent option.
RECURSIVE ListLoop(_, _, _, _, _)
ListLoop(files, dir, minRiskLevel, t, acc) ==
  IF Len(dir) = 0 THEN [files |-> files, value |-> acc]
  ELSE LET f == Head(dir)
       IN  IF files[f] = NoFile
           THEN ListLoop(files, Tail(dir), minRiskLevel, t, acc)
           ELSE IF EntryExpired(files[f], t)
           THEN ListLoop([files EXCEPT ![f] = NoFile], Tail(dir), minRiskLevel, t, acc)
           ELSE IF minRiskLevel # "" /\ ~meetsMinRisk(files[f].riskLevel, minRiskLevel)
           THEN ListLoop(files, Tail(dir), minRiskLevel, t, acc)
           ELSE ListLoop(files, Tail(dir), minRiskLevel, t, Append(acc, files[f]))

quarantineList(files, dir, minRiskLevel, t) ==
  LET l == ListLoop(files, dir, minRiskLevel, t, <<>>)
  IN  [files |-> l.files, value |-> SortByTimeDesc(l.value)]

\* cleanup: the directory afterwards and the number of files removed.
cleanup(files, t) ==
  [files |-> [f \in DOMAIN files |->
                IF files[f] # NoFile /\ EntryExpired(files[f], t) THEN NoFile
                ELSE files[f]],
   value |-> Cardinality({f \in DOMAIN files :
                            files[f] # NoFile /\ EntryExpired(files[f], t)})]

\* readdir: the existing files in an order the file system chooses.
Listings(files) ==
  LET present == {f \in DOMAIN files : files[f] # NoFile}
  IN  {d \in [1..Cardinality(present) -> present] :
         \A i, j \in DOMAIN d : i # j => d[i] # d[j]}

InitQuarantine ==
  /\ quarantine = [f \in QuarantinePaths |-> NoFile]
  /\ qReturn = NoReturn
  /\ kv = [key \in {"threat:", "feed:"} \X {"c1", "c2"} |-> [none |-> TRUE]]
  /\ storeHistory = [none |-> TRUE]
  /\ OtherIdle
  /\ now = 0
  /\ pc = "quarantine"
  /\ cloudEnabled = FALSE
  /\ entries = [h \in Hashes |-> NoEntry]
  /\ lastCheck = NoCheck
  /\ cloudCached = {}
  /\ lastSet = [h \in Hashes |-> NoEntry]
  /\ cacheReturn = NoReturn
  /\ event = NoEvent
  /\ ownerDomain = ""
  /\ config = DEFAULT_CONFIG
  /\ tiEnabled = FALSE
  /\ fieldResults = <<>>
  /\ elapsed = 0
  /\ result = NoResult
  /\ sanitizedEvent = NoEvent
  /\ answers = <<>>
  /\ firstScan = NoScan
  /\ response = NoResponse
  /\ scanResults = <<>>
  /\ returned = NoResponse
  /\ annotations = [null |-> TRUE]

QuarantineFrame ==
  /\ UNCHANGED <<pc, cloudEnabled, entries, lastCheck, cloudCached, lastSet,
                 cacheReturn>>
  /\ UNCHANGED storeVars
  /\ UNCHANGED otherVars
  /\ UNCHANGED engineVars
  /\ UNCHANGED proxyVars

Store ==
  /\ pc = "quarantine"
  /\ \E in \in StoreInputs :
       /\ quarantine' = quarantineStore(quarantine, in, in.originalFields, now)
       /\ qReturn' = [op |-> "store", eventId |-> in.eventId, value |-> Null,
                      before |-> quarantine, at |-> now]
  /\ UNCHANGED now
  /\ QuarantineFrame

Get ==
  /\ pc = "quarantine"
  /\ \E id \in EventIds :
       /\ quarantine' = quarantineGet(quarantine, id, now).files
       /\ qReturn' = [op |-> "get", eventId |-> id,
                      value |-> quarantineGet(quarantine, id, now).value,
                      before |-> quarantine, at |-> now]
  /\ UNCHANGED now
  /\ QuarantineFrame

List ==
  /\ pc = "quarantine"
  /\ \E dir \in Listings(quarantine), min \in {"", "critical"} :
       /\ quarantine' = quarantineList(quarantine, dir, min, now).files
       /\ qReturn' = [op |-> "list", eventId |-> <<>>,
                      value |-> quarantineList(quarantine, dir, min, now).value,
                      before |-> quarantine, at |-> now]
  /\ UNCHANGED now
  /\ QuarantineFrame

Delete ==
  /\ pc = "quarantine"
  /\ \E id \in EventIds :
       /\ quarantine' = quarantineDelete(quarantine, id)
       /\ qReturn' = [op |-> "delete", eventId |-> id, value |-> Null,
                      before |-> quarantine, at |-> now]
  /\ UNCHANGED now
  /\ QuarantineFrame

Cleanup ==
  /\ pc = "quarantine"
  /\ quarantine' = cleanup(quarantine, now).files
  /\ qReturn' = [op |-> "cleanup", eventId |-> <<>>,
                 value |-> cleanup(quarantine, now).value, before |-> quarantine, at |-> now]
  /\ UNCHANGED now
  /\ QuarantineFrame

\* Time passes, half a TTL at a time.
QuarantineTick ==
  /\ pc = "quarantine"
  /\ now + (ttlHours \div 2) <= MaxTicks * (ttlHours \div 2)
  /\ now' = now + (ttlHours \div 2)
  /\ UNCHANGED quarantineVars
  /\ UNCHANGED storeVars
  /\ UNCHANGED otherVars
  /\ QuarantineFrame

NextQuarantine == Store \/ Get \/ List \/ Delete \/ Cleanup \/ QuarantineTick

SpecQuarantine == InitQuarantine /\ [][NextQuarantine]_vars

----------------------------------------------------------------------------
(* ProxyHandler: the proxied executor *)

\* scanEvent as a function, for an engine without the threat-intel tier.
ScanAllFields(cfg, ev, calendarOwnerDomain) ==
  [k \in 1..Len(extractScannableFields(ev)) |->
     scanField(cfg, extractScannableFields(ev)[k].content,
               ScanContext(ev, calendarOwnerDomain, extractScannableFields(ev)[k]),
               <<>>)]

scanEvent(cfg, ev, calendarOwnerDomain) ==
  LET res == EventResult(cfg, ev, calendarOwnerDomain,
                         ScanAllFields(cfg, ev, calendarOwnerDomain), 0)
  IN  [result |-> res, sanitizedEvent |-> applySanitization(ev, res)]

SCANNABLE_TOOLS ==
  {"list-events", "search-events", "get-event", "create-event", "update-event"}

\* The shapes of a response text: a JSON array, a single JSON object, a JSON
\* object with an events array, line-structured plain text.  items are the
\* event objects (or text blocks) it holds; an item without id has id "".
ResponseKinds == {"array", "object", "wrapper", "text"}

ItemTexts == {<<>>, <<"a">>, <<"h">>, <<"i", "<">>}

RawItems ==
  {MakeEvent(id, <<s, d, <<>>>>, CHOOSE p \in Profiles : p.owner = "") :
     id \in {"e1", "e2", ""}, s \in {<<"a">>, <<"i", "<">>}, d \in ItemTexts}

ItemSeqs(n) == UNION {[1..k -> RawItems] : k \in 0..n}

Responses ==
  {[tool |-> t, kind |-> k, items |-> its] :
     t \in {"list-events", "get-current-time"},
     k \in ResponseKinds \ {"object"},
     its \in ItemSeqs(MaxEvents)}
  \cup
  {[tool |-> t, kind |-> "object", items |-> <<it>>] :
     t \in {"get-event", "get-current-time"}, it \in RawItems}
  \cup
  {[tool |-> t, kind |-> "none", items |-> <<>>] :
     t \in {"list-events", "get-current-time"}}

\* result.content?.[0]?.type === 'text' ? result.content[0].text : null; a
\* response of kind "none" carries no text content.
responseText(resp) ==
  IF resp.kind = "none" THEN Null ELSE [text |-> resp.items]

\* extractEventsFromResponse / extractEventsFromPlainText: the items that
\* carry an id, normalized.  A single object without id yields no event; a
\* text block without an "Event ID:" line is skipped.
extractEventsFromResponse(resp) ==
  SelectSeq(resp.items, LAMBDA it : it.id # "")

\* array.findIndex(e => e?.id === eventId), 1-based, 0 when absent.
RECURSIVE FindIndexFrom(_, _, _)
FindIndexFrom(items, eventId, k) ==
  IF k > Len(items) THEN 0
  ELSE IF items[k].id = eventId THEN k
  ELSE FindIndexFrom(items, eventId, k + 1)

\* { ...parsed[idx], ...sanitizedEvent }
Merge(item, sanitized) ==
  [key \in DOMAIN item \cup DOMAIN sanitized |->
     IF key \in DOMAIN sanitized THEN sanitized[key] ELSE item[key]]

replaceEventInResponse(kind, items, eventId, sanitized) ==
  CASE kind \in {"array", "wrapper"} ->
         LET idx == FindIndexFrom(items, eventId, 1)
         IN  IF idx > 0 THEN [items EXCEPT ![idx] = Merge(items[idx], sanitized)]
             ELSE items
    [] kind = "object" ->
         IF items[1].id = eventId THEN <<Merge(items[1], sanitized)>> ELSE items
    [] kind = "text" -> items

\* The loop that replaces the flagged events one after the other.
RECURSIVE ReplaceFlagged(_, _, _)
ReplaceFlagged(kind, items, srs) ==
  IF Len(srs) = 0 THEN items
  ELSE ReplaceFlagged(kind,
         IF Head(srs).result.overallRiskLevel # "safe"
         THEN replaceEventInResponse(kind, items, Head(srs).result.eventId,
                                     Head(srs).sanitizedEvent)
         ELSE items,
         Tail(srs))

\* Number.prototype.toFixed(2) of a value in thousandths, as hundredths.
toFixed2(x) == (x + 5) \div 10

toUpperCase_level(level) ==
  CASE level = "safe" -> "SAFE"
    [] level = "suspicious" -> "SUSPICIOUS"
    [] level = "dangerous" -> "DANGEROUS"
    [] level = "critical" -> "CRITICAL"

\* fieldResults.flatMap(f => f.detections)
RECURSIVE flatMapDetections(_)
flatMapDetections(frs) ==
  IF Len(frs) = 0 THEN <<>> ELSE Head(frs).detections \o flatMapDetections(Tail(frs))

\* sort((a, b) => b.severity - a.severity): stable, so detections of equal
\* severity keep their order.
RECURSIVE InsertBySeverityDesc(_, _)
InsertBySeverityDesc(sorted, d) ==
  IF Len(sorted) = 0 THEN <<d>>
  ELSE IF Head(sorted).severity >= d.severity
       THEN <<Head(sorted)>> \o InsertBySeverityDesc(Tail(sorted), d)
       ELSE <<d>> \o sorted

RECURSIVE SortBySeverityDesc(_)
SortBySeverityDesc(ds) ==
  IF Len(ds) = 0 THEN <<>>
  ELSE InsertBySeverityDesc(SortBySeverityDesc(SubSeq(ds, 1, Len(ds) - 1)), ds[Len(ds)])

MaxAnnotatedDetections == 3

topDetections(res) ==
  Slice(SortBySeverityDesc(flatMapDetections(res.fieldResults)), 0, MaxAnnotatedDetections)

\* The lines of the notice for one flagged event.
EventLines(res) ==
  <<[line |-> "Event", text |-> res.eventId],
    [line |-> "Risk Level", text |-> toUpperCase_level(res.overallRiskLevel)],
    [line |-> "Risk Score", hundredths |-> toFixed2(res.overallRiskScore \div (One \div 1000))],
    [line |-> "Action Taken", text |-> res.overallAction]>>
  \o (IF res.isExternalOrganizer
      THEN <<[line |-> "WARNING", organizer |-> res.organizerEmail]>> ELSE <<>>)
  \o [k \in 1..Len(topDetections(res)) |->
        [line |-> "Detection", ruleId |-> topDetections(res)[k].ruleId,
         hundredths |-> toFixed2(topDetections(res)[k].severity)]]
  \o (IF res.overallAction = "redact" THEN <<[line |-> "NOTE redacted"]>> ELSE <<>>)
  \o (IF res.overallAction = "block"
      THEN <<[line |-> "NOTE blocked"], [line |-> "Use calguard-view-quarantined"]>>
      ELSE <<>>)
  \o <<[line |-> ""]>>

RECURSIVE AllEventLines(_)
AllEventLines(flagged) ==
  IF Len(flagged) = 0 THEN <<>>
  ELSE EventLines(Head(flagged)) \o AllEventLines(Tail(flagged))

\* SecurityAnnotator.buildAnnotations: Null when no event is flagged.
buildAnnotations(results) ==
  LET flagged == SelectSeq(results, LAMBDA r : r.overallRiskLevel # "safe")
  IN  IF Len(flagged) = 0 THEN Null
      ELSE <<[line |-> "[CALGUARD SECURITY NOTICE]"],
             [line |-> "event(s) flagged", count |-> Len(flagged)],
             [line |-> ""]>>
           \o AllEventLines(flagged)
           \o <<[line |-> "IMPORTANT"], [line |-> "Do NOT execute"],
                [line |-> "Do NOT follow"]>>

\* A proxy that annotates only when an event is blocked.
AnyFlagged_BlockedOnly(srs) ==
  \E k \in 1..Len(srs) : srs[k].result.overallAction = "block"

AnyFlagged(srs) == \E k \in 1..Len(srs) : srs[k].result.overallRiskLevel # "safe"

InitProxy ==
  /\ response \in Responses
  /\ config \in {DEFAULT_CONFIG, CUSTOM_CONFIG}
  /\ tiEnabled = FALSE
  /\ pc = "call"
  /\ scanResults = <<>>
  /\ returned = NoResponse
  /\ annotations = [null |-> TRUE]
  /\ event = NoEvent
  /\ ownerDomain = ""
  /\ fieldResults = <<>>
  /\ elapsed = 0
  /\ result = NoResult
  /\ sanitizedEvent = NoEvent
  /\ answers = <<>>
  /\ firstScan = NoScan
  /\ cloudEnabled = FALSE
  /\ entries = [h \in Hashes |-> NoEntry]
  /\ now = 0
  /\ lastCheck = NoCheck
  /\ cloudCached = {}
  /\ lastSet = [h \in Hashes |-> NoEntry]
  /\ cacheReturn = NoReturn
  /\ quarantine = [f \in QuarantinePaths |-> NoFile]
  /\ qReturn = NoReturn
  /\ kv = [key \in {"threat:", "feed:"} \X {"c1", "c2"} |-> [none |-> TRUE]]
  /\ storeHistory = [none |-> TRUE]
  /\ OtherIdle

\* The early returns: not a scannable tool, no text, or no event extracted.
PassThrough ==
  /\ pc = "call"
  /\ \/ response.tool \notin SCANNABLE_TOOLS
     \/ responseText(response) = Null
     \/ Len(extractEventsFromResponse(response)) = 0
  /\ returned' = response
  /\ pc' = "returned"
  /\ UNCHANGED <<response, scanResults, annotations>>
  /\ UNCHANGED engineVars
  /\ UNCHANGED clientVars
  /\ UNCHANGED quarantineVars
  /\ UNCHANGED storeVars
  /\ UNCHANGED otherVars

\* The scan loop: engine.scanEvent(event) for every extracted event.
ScanEvents ==
  /\ pc = "call"
  /\ response.tool \in SCANNABLE_TOOLS
  /\ Len(extractEventsFromResponse(response)) > 0
  /\ scanResults' = [k \in 1..Len(extractEventsFromResponse(response)) |->
                       scanEvent(config, extractEventsFromResponse(response)[k], "")]
  /\ pc' = "scanned"
  /\ UNCHANGED <<response, returned, annotations>>
  /\ UNCHANGED engineVars
  /\ UNCHANGED clientVars
  /\ UNCHANGED quarantineVars
  /\ UNCHANGED storeVars
  /\ UNCHANGED otherVars

\* After the scan: the upstream result when nothing is flagged, else the
\* annotated text with the flagged events replaced.
ReturnResult ==
  /\ pc = "scanned"
  /\ returned' =
       IF ~AnyFlagged(scanResults) THEN response
       ELSE [tool |-> response.tool, kind |-> response.kind,
             items |-> ReplaceFlagged(response.kind, response.items, scanResults),
             annotated |-> TRUE]
  /\ pc' = "returned"
  /\ annotations' = IF ~AnyFlagged(scanResults) THEN Null
                    ELSE buildAnnotations([k \in 1..Len(scanResults) |->
                                             scanResults[k].result])
  /\ UNCHANGED <<response, scanResults>>
  /\ UNCHANGED engineVars
  /\ UNCHANGED clientVars
  /\ UNCHANGED quarantineVars
  /\ UNCHANGED storeVars
  /\ UNCHANGED otherVars

NextProxy == PassThrough \/ ScanEvents \/ ReturnResult

\* buildAnnotations applied to the result of a finished scan of the engine.
Annotate ==
  /\ pc = "done"
  /\ annotations' = buildAnnotations(<<result>>)
  /\ pc' = "annotated"
  /\ UNCHANGED <<response, scanResults, returned>>
  /\ UNCHANGED engineVars
  /\ UNCHANGED clientVars
  /\ UNCHANGED quarantineVars
  /\ UNCHANGED storeVars
  /\ UNCHANGED otherVars

NextAnnotate == ScanNextField \/ FinishScan \/ Annotate

InitAnnotate == Init /\ tiEnabled /\ config = DEFAULT_CONFIG /\ event.location = <<>>

SpecAnnotate == InitAnnotate /\ [][NextAnnotate]_vars

\* Events of a calendar owned by x.com whose organizer is set: alice@x.com is
\* internal, mallory@evil.com is external.
OrganizedItems ==
  {MakeEvent(id, <<s, d, <<>>>>, p) :
     id \in {"e1", "e2"}, s \in {<<"a">>, <<"i">>}, d \in ItemTexts,
     p \in {q \in Profiles : q.organizer # NoEmail}}

\* The proxy in front of the calendar of an owner in x.com.
InitProxyOrganized ==
  /\ response \in {[tool |-> t, kind |-> "object", items |-> <<it>>] :
                     t \in {"get-event", "get-current-time"}, it \in OrganizedItems}
  /\ ownerDomain = "x.com"
  /\ config \in {DEFAULT_CONFIG, CUSTOM_CONFIG}
  /\ tiEnabled = FALSE
  /\ pc = "call"
  /\ scanResults = <<>>
  /\ returned = NoResponse
  /\ annotations = [null |-> TRUE]
  /\ event = NoEvent
  /\ fieldResults = <<>>
  /\ elapsed = 0
  /\ result = NoResult
  /\ sanitizedEvent = NoEvent
  /\ answers = <<>>
  /\ firstScan = NoScan
  /\ cloudEnabled = FALSE
  /\ entries = [h \in Hashes |-> NoEntry]
  /\ now = 0
  /\ lastCheck = NoCheck
  /\ cloudCached = {}
  /\ lastSet = [h \in Hashes |-> NoEntry]
  /\ cacheReturn = NoReturn
  /\ quarantine = [f \in QuarantinePaths |-> NoFile]
  /\ qReturn = NoReturn
  /\ kv = [key \in {"threat:", "feed:"} \X {"c1", "c2"} |-> [none |-> TRUE]]
  /\ storeHistory = [none |-> TRUE]
  /\ OtherIdle

SpecProxyOrganized == InitProxyOrganized /\ [][NextProxy]_vars

SpecProxy == InitProxy /\ [][NextProxy]_vars

\* The characters of an event id.
CharsOf(id) ==
  CASE id = "a" -> <<"a">>
    [] id = "a/" -> <<"a", "/">>
    [] id = "a_" -> <<"a", "_">>

\* if (originalEvent.summary) originalFields.summary = ...: the non-empty
\* ones of summary, description and location.
originalFieldsOf(originalEvent) ==
  [f \in {g \in {"summary", "description", "location"} :
            (CASE g = "summary" -> originalEvent.summary
               [] g = "description" -> originalEvent.description
               [] g = "location" -> originalEvent.location) # <<>>} |->
     CASE f = "summary" -> originalEvent.summary
       [] f = "description" -> originalEvent.description
       [] f = "location" -> originalEvent.location]

\* The quarantine loop over the scan results: for a blocked or redacted
\* result, events.find(e => e.id === scanResult.eventId) and store().
RECURSIVE quarantineFlagged(_, _, _, _)
quarantineFlagged(files, events, srs, t) ==
  IF Len(srs) = 0 THEN files
  ELSE LET scanResult == Head(srs).result
           idx == FindIndexFrom(events, scanResult.eventId, 1)
       IN  quarantineFlagged(
             IF scanResult.overallAction \in {"block", "redact"} /\ idx > 0
             THEN quarantineStore(files,
                                  [scanResult EXCEPT !.eventId = CharsOf(@)],
                                  originalFieldsOf(events[idx]), t)
             ELSE files,
             events, Tail(srs), t)

\* The fire-and-forget stores of a processed response have all finished.
StoreFlagged ==
  /\ pc = "returned"
  /\ quarantine' = quarantineFlagged(quarantine, extractEventsFromResponse(response),
                                     scanResults, now)
  /\ pc' = "stored"
  /\ UNCHANGED qReturn
  /\ UNCHANGED proxyVars
  /\ UNCHANGED <<event, ownerDomain, config, tiEnabled, fieldResults, elapsed,
                 result, sanitizedEvent, answers, firstScan>>
  /\ UNCHANGED clientVars
  /\ UNCHANGED storeVars
  /\ UNCHANGED otherVars

NextProxyQuarantine == PassThrough \/ ScanEvents \/ ReturnResult \/ StoreFlagged

\* Events whose ids have the characters the quarantine paths are built from.
QuarantinableItems ==
  {MakeEvent(id, <<s, d, <<>>>>, CHOOSE p \in Profiles : p.owner = "") :
     id \in {"a", "a/", "a_"}, s \in {<<"a">>, <<"i", "<">>}, d \in ItemTexts}

\* The proxy and its quarantine store, in front of a list of such events.
InitProxyQuarantine ==
  /\ response \in {[tool |-> t, kind |-> "array", items |-> its] :
                     t \in {"list-events", "get-current-time"},
                     its \in UNION {[1..k -> QuarantinableItems] : k \in 0..MaxEvents}}
  /\ ownerDomain = ""
  /\ config \in {DEFAULT_CONFIG, CUSTOM_CONFIG}
  /\ tiEnabled = FALSE
  /\ pc = "call"
  /\ scanResults = <<>>
  /\ returned = NoResponse
  /\ annotations = [null |-> TRUE]
  /\ event = NoEvent
  /\ fieldResults = <<>>
  /\ elapsed = 0
  /\ result = NoResult
  /\ sanitizedEvent = NoEvent
  /\ answers = <<>>
  /\ firstScan = NoScan
  /\ cloudEnabled = FALSE
  /\ entries = [h \in Hashes |-> NoEntry]
  /\ now = 0
  /\ lastCheck = NoCheck
  /\ cloudCached = {}
  /\ lastSet = [h \in Hashes |-> NoEntry]
  /\ cacheReturn = NoReturn
  /\ quarantine = [f \in QuarantinePaths |-> NoFile]
  /\ qReturn = NoReturn
  /\ kv = [key \in {"threat:", "feed:"} \X {"c1", "c2"} |-> [none |-> TRUE]]
  /\ storeHistory = [none |-> TRUE]
  /\ OtherIdle

SpecProxyQuarantine == InitProxyQuarantine /\ [][NextProxyQuarantine]_vars

----------------------------------------------------------------------------
(* Properties of the engine, the scorer and the redactor (Spec) *)

Done == pc = "done"

FieldResultSet == {fieldResults[k] : k \in 1..Len(fieldResults)}

DetectionsOf(fr) == {fr.detections[k] : k \in 1..Len(fr.detections)}

ScannedContent(k) == extractScannableFields(event)[k].content

\* The score band of the specification, written from its text.
Band(cfg, score) ==
  CASE score >= cfg.thresholdCritical -> "critical"
    [] score < cfg.thresholdCritical /\ score >= cfg.thresholdDangerous -> "dangerous"
    [] score < cfg.thresholdDangerous /\ score >= cfg.thresholdSuspicious -> "suspicious"
    [] OTHER -> "safe"

Paired(level, action) ==
  <<level, action>> \in {<<"safe", "pass">>, <<"suspicious", "flag">>,
                         <<"dangerous", "redact">>, <<"critical", "block">>}

\* C2: in a field whose action is Redact, the sanitized content holds the
\* marker [REDACTED:<rule_id>] of every detection with match_length > 0,
\* whatever the relative positions of the ranges, and when every dangerous
\* tag of the field lay in a redacted range none remains.
C2_RedactMarksEveryDetection ==
  \A k \in 1..Len(fieldResults) :
    fieldResults[k].action = "redact" =>
      /\ \A d \in DetectionsOf(fieldResults[k]) :
            d.matchLength > 0 =>
              Contains(fieldResults[k].sanitizedContent, RedactionMarker(d.ruleId))
      /\ (\A q \in 1..Len(ScannedContent(k)) :
             ScannedContent(k)[q] = "<" =>
               \E d \in DetectionsOf(fieldResults[k]) :
                  /\ d.matchLength > 0
                  /\ d.matchOffset < q /\ q <= d.matchOffset + d.matchLength)
         => ~Contains(fieldResults[k].sanitizedContent, <<"<">>)

\* C4: a scan that ran past the 5000 ms budget returns a result that holds
\* an ENGINE-TIMEOUT detection of severity 1.0 and whose action is at least
\* Flag.
C4_TimeoutYieldsPartialResult ==
  (Done /\ elapsed > maxTotalScanTime) =>
     /\ \E fr \in FieldResultSet : \E d \in DetectionsOf(fr) :
           d.ruleId = "ENGINE-TIMEOUT" /\ d.severity = 1000
     /\ result.overallAction \in {"flag", "redact", "block"}

\* C5: the risk score of every field result and the overall risk score of
\* the event lie in [0,1].
C5_ScoresInUnitInterval ==
  /\ \A fr \in FieldResultSet : 0 <= fr.riskScore /\ fr.riskScore <= One
  /\ Done => (0 <= result.overallRiskScore /\ result.overallRiskScore <= One)

\* C6: the level of every field result and of the event result is the band
\* of its score under the configured thresholds, lower bounds inclusive, and
\* the action is the one paired with the level.
C6_LevelIsBandOfScore ==
  /\ \A fr \in FieldResultSet :
        /\ fr.riskLevel = Band(config, fr.riskScore)
        /\ Paired(fr.riskLevel, fr.action)
  /\ Done =>
        /\ result.overallRiskLevel = Band(config, result.overallRiskScore)
        /\ Paired(result.overallRiskLevel, result.overallAction)

C6_Witness ==
  /\ Done
  /\ config = DEFAULT_CONFIG
  /\ \E fr \in FieldResultSet :
        fr.riskScore = 30 * Cent /\ fr.riskLevel = "suspicious" /\ fr.action = "flag"
  /\ result.overallRiskScore = 30 * Cent
  /\ result.overallRiskLevel = "suspicious"

\* C7: the overall score is the greatest risk score among the field results,
\* 0 with Safe and Pass when no field was scanned; level and action derive
\* from that score.
C7_EventScoreIsMaxField ==
  Done =>
    IF Len(fieldResults) = 0
    THEN /\ result.overallRiskScore = 0
         /\ result.overallRiskLevel = "safe"
         /\ result.overallAction = "pass"
    ELSE /\ \E fr \in FieldResultSet : result.overallRiskScore = fr.riskScore
         /\ \A fr \in FieldResultSet : fr.riskScore <= result.overallRiskScore
         /\ result.overallRiskLevel = Band(config, result.overallRiskScore)
         /\ Paired(result.overallRiskLevel, result.overallAction)

C7_Witness ==
  /\ Done
  /\ Len(fieldResults) >= 2
  /\ fieldResults[1].riskScore < fieldResults[2].riskScore
  /\ result.overallRiskScore = fieldResults[2].riskScore
  /\ result.overallRiskLevel = "dangerous"

\* The detections a tier can emit, for C8.
EmittableBy(tier) ==
  CASE tier = "structural" ->
         {Detection("structural", "STRUCT-003", 900, <<"<">>, 0, 1, 950),
          Detection("structural", "STRUCT-009", 750, <<"h">>, 0, 1, 800)}
    [] tier = "contextual" ->
         {Detection("contextual", "CTX-001", sev, <<"i">>, 0, 1, 750) :
            sev \in {650, 780, 910, 1000}}
    [] tier = "threat-intel" ->
         {createDetection(r) : r \in {c \in CheckResults : c.known}}

\* C8: adding to a field's detections one detection of a tier that had
\* contributed none never lowers the field's composite score.
C8_SilentTierNeverLowersScore ==
  \A fr \in FieldResultSet : \A t \in 1..Len(Tiers) :
    Len(TierDetections(fr.detections, Tiers[t])) = 0 =>
      \A d \in EmittableBy(Tiers[t]) :
        scoreField(config, Append(fr.detections, d)).score
          >= scoreField(config, fr.detections).score

\* C9: every detection a tier emitted has severity and confidence in [0,1].
C9_SeverityConfidenceInUnitInterval ==
  \A fr \in FieldResultSet : \A d \in DetectionsOf(fr) :
    /\ 0 <= d.severity /\ d.severity <= 1000
    /\ 0 <= d.confidence /\ d.confidence <= 1000

AttendeeEmails(ev) == [k \in 1..Len(ev.attendees) |-> ev.attendees[k].email]
AttachmentTitles(ev) == [k \in 1..Len(ev.attachments) |-> ev.attachments[k].title]

OwnActionSanitizes(fieldName) ==
  \E fr \in FieldResultSet :
     fr.fieldName = fieldName /\ fr.action \in {"redact", "block"}

\* C10: the sanitized event keeps id, calendarId, organizer, attendee emails
\* and attachment titles; summary, description and location differ from the
\* input only when that field's own action is Redact or Block.
C10_SanitizedEventFrame ==
  Done =>
    /\ sanitizedEvent.id = event.id
    /\ sanitizedEvent.calendarId = event.calendarId
    /\ sanitizedEvent.organizer = event.organizer
    /\ AttendeeEmails(sanitizedEvent) = AttendeeEmails(event)
    /\ AttachmentTitles(sanitizedEvent) = AttachmentTitles(event)
    /\ DOMAIN sanitizedEvent = DOMAIN event
    /\ sanitizedEvent.summary # event.summary => OwnActionSanitizes("summary")
    /\ sanitizedEvent.description # event.description => OwnActionSanitizes("description")
    /\ sanitizedEvent.location # event.location => OwnActionSanitizes("location")

C10_Witness ==
  /\ Done
  /\ sanitizedEvent.description # event.description
  /\ Len(event.summary) > 0
  /\ sanitizedEvent.summary = event.summary
  /\ Len(event.attachments) > 0
  /\ \E fr \in FieldResultSet : fr.fieldName = "summary" /\ fr.action = "flag"

\* The tiers the detections of a field result come from.
TiersOf(fr) == {d.tier : d \in DetectionsOf(fr)}

\* C27: with the default thresholds a field whose detections all come from
\* one tier scores at most that tier's weight and its action is Pass or
\* Flag; a field with only threat-intel detections is Safe.  The detections
\* of the field are those of its result when none was cut off by the cap.
C27_SingleTierBelowRedact ==
  config = DEFAULT_CONFIG =>
    \A fr \in FieldResultSet :
       \A tier \in TiersOf(fr) :
          (TiersOf(fr) = {tier} /\ Len(fr.detections) < MaxDetectionsPerField) =>
            /\ fr.riskScore <= TIER_WEIGHTS(tier) * Cent
            /\ fr.action \in {"pass", "flag"}
            /\ tier = "threat-intel" => fr.riskLevel = "safe"

\* A finished scan under the default thresholds with a field flagged by the
\* structural tier alone and a field with only a threat-intel detection.
C27_Witness ==
  /\ Done
  /\ config = DEFAULT_CONFIG
  /\ \E fr \in FieldResultSet :
        TiersOf(fr) = {"structural"} /\ fr.action = "flag"
  /\ \E fr \in FieldResultSet :
        TiersOf(fr) = {"threat-intel"} /\ fr.riskScore > 0

----------------------------------------------------------------------------
(* Properties of the proxy (SpecProxy) *)

\* The place in the response of the k-th extracted event.
RECURSIVE PlaceOf(_, _, _)
PlaceOf(items, k, at) ==
  IF items[at].id # ""
  THEN (IF k = 1 THEN at ELSE PlaceOf(items, k - 1, at + 1))
  ELSE PlaceOf(items, k, at + 1)

FieldValue(item, fieldName) ==
  CASE fieldName = "summary" -> item.summary
    [] fieldName = "description" -> item.description
    [] fieldName = "location" -> item.location

\* C1: for every scanned event of a response, in each of the four shapes,
\* a summary, description or location whose field action is Redact or Block
\* reaches the LLM as its sanitized content and not as its original value.
C1_ReturnedTextIsSanitized ==
  pc = "returned" =>
    \A k \in 1..Len(scanResults) :
      \A fr \in {scanResults[k].result.fieldResults[q] :
                   q \in 1..Len(scanResults[k].result.fieldResults)} :
        (fr.fieldName \in {"summary", "description", "location"}
           /\ fr.action \in {"redact", "block"}) =>
          LET at == PlaceOf(response.items, k, 1)
          IN  /\ FieldValue(returned.items[at], fr.fieldName) = fr.sanitizedContent
              /\ FieldValue(returned.items[at], fr.fieldName)
                   # FieldValue(response.items[at], fr.fieldName)

\* What the scan of the extracted events of the response yields.
ScansOf(resp) ==
  [k \in 1..Len(extractEventsFromResponse(resp)) |->
     scanEvent(config, extractEventsFromResponse(resp)[k], "")]

\* The responses the proxy hands on untouched.
Untouched(resp) ==
  \/ resp.tool \notin SCANNABLE_TOOLS
  \/ resp.kind = "none"
  \/ Len(extractEventsFromResponse(resp)) = 0
  \/ \A k \in 1..Len(ScansOf(resp)) : ScansOf(resp)[k].result.overallRiskLevel = "safe"

\* C24: the proxied executor returns the upstream result itself, with no
\* annotation, when the tool is not scannable, the response has no text or
\* no extractable event, or every scanned event is Safe; otherwise, and only
\* then, it returns an annotated result.
C24_UnchangedUnlessFlagged ==
  pc = "returned" =>
    IF Untouched(response)
    THEN returned = response /\ annotations = Null
    ELSE /\ returned # response
         /\ returned.annotated
         /\ annotations # Null
         /\ \E k \in 1..Len(scanResults) :
              scanResults[k].result.overallRiskLevel # "safe"

\* A scannable response whose events were all scanned Safe and that is
\* returned as it came.
C24_Witness ==
  /\ pc = "returned"
  /\ response.tool \in SCANNABLE_TOOLS
  /\ Len(scanResults) = MaxEvents
  /\ \A k \in 1..Len(scanResults) : scanResults[k].result.overallRiskLevel = "safe"
  /\ returned = response
  /\ annotations = Null

----------------------------------------------------------------------------
(* Properties of the proxy and its quarantine (SpecProxyQuarantine) *)

\* C25: once the background stores of a processed response have finished,
\* the quarantine holds for every scanned event whose action is Redact or
\* Block an entry with that event's id and its own original summary,
\* description and location, and every entry it holds is of a scanned
\* event whose action is Redact or Block.
C25_QuarantineHoldsFlaggedOriginals ==
  pc = "stored" =>
    LET events == extractEventsFromResponse(response)
    IN  /\ \A k \in 1..Len(scanResults) :
             scanResults[k].result.overallAction \in {"redact", "block"} =>
               LET file == quarantine[entryPath(CharsOf(events[k].id))]
               IN  /\ file # NoFile
                   /\ file.eventId = CharsOf(events[k].id)
                   /\ file.originalFields = originalFieldsOf(events[k])
        /\ \A f \in QuarantinePaths :
             quarantine[f] # NoFile =>
               \E k \in 1..Len(scanResults) :
                  /\ scanResults[k].result.overallAction \in {"redact", "block"}
                  /\ CharsOf(events[k].id) = quarantine[f].eventId

----------------------------------------------------------------------------
(* Properties of the client (SpecClient) *)

\* C3: a check of a fingerprint one of whose hashes holds an unexpired entry
\* that check wrote from a cloud response (positive or negative) sends no
\* cloud request and returns what the cache holds.
C3_CachedResponseAvoidsCloud ==
  (lastCheck # NoCheck /\ lastCheck.cached # {}) =>
    /\ lastCheck.requests = <<>>
    /\ lastCheck.result \in {lastCheck.cachedContent, lastCheck.cachedStructural, Negative}

----------------------------------------------------------------------------
(* Scanning twice (SpecRescan) *)

SecondDone == pc = "done" /\ firstScan # NoScan

\* The detections of a result, field by field, each list as a bag.
RECURSIVE BagOfSeq(_)
BagOfSeq(ds) ==
  IF Len(ds) = 0 THEN <<>>
  ELSE LET rest == BagOfSeq(Tail(ds))
       IN  IF Head(ds) \in DOMAIN rest
           THEN [rest EXCEPT ![Head(ds)] = @ + 1]
           ELSE [x \in DOMAIN rest \cup {Head(ds)} |->
                   IF x = Head(ds) THEN 1 ELSE rest[x]]

DetectionBags(res) ==
  [k \in 1..Len(res.fieldResults) |-> BagOfSeq(res.fieldResults[k].detections)]

SameScan(res1, ev1, res2, ev2) ==
  /\ res1.overallRiskScore = res2.overallRiskScore
  /\ DetectionBags(res1) = DetectionBags(res2)
  /\ ev1 = ev2

----------------------------------------------------------------------------
(* Properties of the quarantine (SpecQuarantine) *)

\* The files of the directory before the last operation that held an
\* expired entry and that the operation met: the file of the id for get,
\* every file for list.
ExpiredMet ==
  {f \in QuarantinePaths :
     /\ qReturn.before[f] # NoFile
     /\ EntryExpired(qReturn.before[f], qReturn.at)
     /\ (qReturn.op = "get" => f = entryPath(qReturn.eventId))}

\* C12: get never returns and list never holds an entry whose expiresAt has
\* passed, and each of them deletes the file of an expired entry it meets.
C12_ExpiredNeverReturned ==
  /\ (qReturn # NoReturn /\ qReturn.op = "get") =>
        /\ qReturn.value # Null => ~EntryExpired(qReturn.value, qReturn.at)
        /\ \A f \in ExpiredMet : quarantine[f] = NoFile
  /\ (qReturn # NoReturn /\ qReturn.op = "list") =>
        /\ \A k \in 1..Len(qReturn.value) : ~EntryExpired(qReturn.value[k], qReturn.at)
        /\ \A f \in ExpiredMet : quarantine[f] = NoFile

C12_Witness ==
  /\ qReturn # NoReturn
  /\ qReturn.op \in {"get", "list"}
  /\ ExpiredMet # {}
  /\ \E f \in QuarantinePaths : quarantine[f] # NoFile
  /\ now = qReturn.at

----------------------------------------------------------------------------
(* Properties of the cache (SpecCache) *)

\* C13: a get(h) after set(h, r), with no set or feed import for h in
\* between and whatever was done to other hashes, returns r while the TTL of
\* the entry has not elapsed and null once it has.
C13_GetAfterSet ==
  (cacheReturn # NoReturn /\ cacheReturn.op = "get" /\ cacheReturn.lastSet # NoEntry) =>
    /\ cacheReturn.at < cacheReturn.lastSet.expiresAt =>
          cacheReturn.value = cacheReturn.lastSet.result
    /\ cacheReturn.at > cacheReturn.lastSet.expiresAt =>
          cacheReturn.value = Null

C13_Witness ==
  /\ cacheReturn # NoReturn
  /\ cacheReturn.op = "get"
  /\ cacheReturn.lastSet # NoEntry
  /\ cacheReturn.at > cacheReturn.lastSet.cachedAt
  /\ cacheReturn.at < cacheReturn.lastSet.expiresAt
  /\ ~cacheReturn.lastSet.result.known
  /\ \E h \in Hashes \ {cacheReturn.hash} : entries[h] # NoEntry /\ entries[h].result.known

\* C14: with the cloud disabled, check sends no request and returns the
\* cached record of the content hash when it is known, else that of the
\* structural hash when it is known, else the negative result.
C14_DisabledCheckFromCache ==
  (lastCheck # NoCheck /\ ~cloudEnabled) =>
    /\ lastCheck.requests = <<>>
    /\ lastCheck.result =
         IF IsKnown(lastCheck.cachedContent)
         THEN lastCheck.cachedContent
         ELSE IF IsKnown(lastCheck.cachedStructural)
         THEN lastCheck.cachedStructural
         ELSE Negative

C14_Witness ==
  /\ lastCheck # NoCheck
  /\ ~cloudEnabled
  /\ lastCheck.cachedContent # Null
  /\ ~IsKnown(lastCheck.cachedContent)
  /\ IsKnown(lastCheck.cachedStructural)
  /\ lastCheck.result = lastCheck.cachedStructural

----------------------------------------------------------------------------
(* Degradation (SpecViaClient) *)

\* The result of field k had the threat-intel tier emitted nothing.
LocalFieldResult(k) ==
  scanField(config, extractScannableFields(event)[k].content,
            ScanContext(event, ownerDomain, extractScannableFields(event)[k]), <<>>)

\* C15: when every cloud request of a field's check failed (network error,
\* timeout or non-2xx answer), the scan still reaches its result, the
\* threat-intel tier emits a detection for the field only from a known
\* cached record, and without one the field result, and with it the event
\* result and the sanitized event, is that of the two local tiers.
C15_DegradesToLocalTiers ==
  /\ (pc = "scan" /\ Len(fieldResults) < Len(extractScannableFields(event))) =>
        \A a1 \in CloudAnswers, a2 \in CloudAnswers :
          check(entries, cloudEnabled, now,
                FingerprintOf(extractScannableFields(event)[Len(fieldResults) + 1].content),
                a1, a2).result.known \in BOOLEAN
  /\ \A k \in 1..Len(fieldResults) :
        answers[k].cloudFailed =>
          /\ (\E d \in DetectionsOf(fieldResults[k]) : d.tier = "threat-intel")
                => answers[k].cachedKnown
          /\ ~answers[k].checkResult.known => fieldResults[k] = LocalFieldResult(k)
  /\ (Done /\ \A k \in 1..Len(answers) :
                 answers[k].cloudFailed /\ ~answers[k].checkResult.known) =>
        /\ result = EventResult(config, event, ownerDomain,
                                ScanAllFields(config, event, ownerDomain), elapsed)
        /\ sanitizedEvent = scanEvent(config, event, ownerDomain).sanitizedEvent

C15_Witness ==
  /\ Done
  /\ Len(answers) = 2
  /\ \A k \in 1..Len(answers) : answers[k].cloudFailed /\ ~answers[k].checkResult.known
  /\ elapsed > 0
  /\ result.overallAction \in {"redact", "block"}

----------------------------------------------------------------------------
(* External organizers behind the proxy (SpecProxyOrganized) *)

\* C16: every event scanned through the proxied executor whose organizer's
\* domain differs from the calendar owner's domain is scanned as an event of
\* an external organizer: its scan is the scan made with the owner's domain.
C16_ExternalOrganizerAmplified ==
  \A k \in 1..Len(scanResults) :
     LET ev == extractEventsFromResponse(response)[k]
     IN  IsExternal(ev, ownerDomain) =>
           scanResults[k].result = scanEvent(config, ev, ownerDomain).result

----------------------------------------------------------------------------
(* CTX-001 (SpecOverride) *)

\* The positions (0-based) at which an override verb occurs in the text.
VerbOccurrences(text) ==
  {p \in 0..(Len(text) - 1) :
     \E j \in 1..Len(OverrideVerbs) : HasVerb(text[p + 1], OverrideVerbs[j])}

WindowOf(text, p) == Slice(text, p, p + 1 + WindowAfterVerb)
NounInWindow(text, p) == \E k \in 1..Len(WindowOf(text, p)) : HasNoun(WindowOf(text, p)[k])
ModifierInWindow(text, p) ==
  \E k \in 1..Len(WindowOf(text, p)) : HasModifier(WindowOf(text, p)[k])

\* The CTX-001 detections of the scanned title, as (offset, severity, confidence).
OverrideDetections ==
  LET ds == SelectSeq(fieldResults[1].detections, LAMBDA d : d.ruleId = "CTX-001")
  IN  [count |-> Len(ds),
       found |-> {<<ds[k].matchOffset, ds[k].severity, ds[k].confidence>> : k \in 1..Len(ds)}]

\* C17: CTX-001 emits exactly one detection for every occurrence of an
\* override verb that has a noun in the window after it, of severity 0.80 and
\* confidence 0.90 when a modifier is in the window and 0.65 and 0.75
\* otherwise, and nothing for an occurrence without a noun in its window.
C17_EveryVerbOccurrenceExamined ==
  Len(fieldResults) = 1 =>
    LET text == event.summary
        expected == {<<p, IF ModifierInWindow(text, p) THEN 800 ELSE 650,
                          IF ModifierInWindow(text, p) THEN 900 ELSE 750>> :
                       p \in {q \in VerbOccurrences(text) : NounInWindow(text, q)}}
    IN  /\ OverrideDetections.found = expected
        /\ OverrideDetections.count = Cardinality(expected)

----------------------------------------------------------------------------
(* Contextual weighting (SpecLocal) *)

\* The contextual detections of a text scanned as field type ft, external or not.
Weighted(text, ft, ext) ==
  ContextualAnalyze(text, [fieldName |-> "", fieldType |-> ft, isExternalOrganizer |-> ext])

\* min(1.0, base x 1.4 if external x 1.2 for a description, x 1.3 for an
\* attendee name), in thousandths.
WeightedSeverity(base, ft, ext) ==
  Min(1000, (base * (IF ext THEN 140 ELSE 100)
                  * (CASE ft = "description" -> 120 [] ft = "attendee_name" -> 130
                       [] OTHER -> 100)) \div 10000)

\* C18: for the text and field type of every scanned field, each contextual
\* detection's severity with an external organizer is at least its severity
\* without one, both are min(1.0, base x 1.4 if external x 1.2 for a
\* description or x 1.3 for an attendee name), and the field result carries
\* the severities of the event's own context.
C18_ExternalWeightingMonotone ==
  \A k \in 1..Len(fieldResults) :
     LET field == extractScannableFields(event)[k]
         base == detectInstructionOverride(field.content)
         int == Weighted(field.content, field.fieldType, FALSE)
         ext == Weighted(field.content, field.fieldType, TRUE)
         own == SelectSeq(fieldResults[k].detections, LAMBDA d : d.tier = "contextual")
     IN  /\ Len(int) = Len(base) /\ Len(ext) = Len(base)
         /\ \A j \in 1..Len(base) :
               /\ ext[j].severity >= int[j].severity
               /\ int[j].severity = WeightedSeverity(base[j].severity, field.fieldType, FALSE)
               /\ ext[j].severity = WeightedSeverity(base[j].severity, field.fieldType, TRUE)
         /\ own = IF IsExternal(event, ownerDomain) THEN ext ELSE int

C18_Witness ==
  /\ IsExternal(event, ownerDomain)
  /\ \E k \in 1..Len(fieldResults) :
        /\ extractScannableFields(event)[k].fieldType = "title"
        /\ \E d \in DetectionsOf(fieldResults[k]) :
              d.tier = "contextual" /\ d.severity = 910
  /\ \E k \in 1..Len(fieldResults) :
        /\ extractScannableFields(event)[k].fieldType = "description"
        /\ \E d \in DetectionsOf(fieldResults[k]) :
              d.tier = "contextual" /\ d.severity = 1000

----------------------------------------------------------------------------
(* The annotator (SpecAnnotate) *)

RuleRank(ruleId) ==
  CASE ruleId = "CTX-001" -> 1
    [] ruleId = "STRUCT-003" -> 2
    [] ruleId = "STRUCT-009" -> 3
    [] ruleId = "THREAT-001" -> 4

\* d comes before e: higher severity first, then rule-id order.
ListedBefore(d, e) ==
  \/ d.severity > e.severity
  \/ d.severity = e.severity /\ RuleRank(d.ruleId) < RuleRank(e.ruleId)

RECURSIVE InsertListed(_, _)
InsertListed(sorted, d) ==
  IF Len(sorted) = 0 THEN <<d>>
  ELSE IF ListedBefore(d, Head(sorted)) THEN <<d>> \o sorted
  ELSE <<Head(sorted)>> \o InsertListed(Tail(sorted), d)

RECURSIVE SortListed(_)
SortListed(ds) == IF Len(ds) = 0 THEN <<>> ELSE InsertListed(SortListed(Tail(ds)), Head(ds))

DetectionLines(notice) ==
  IF notice = Null THEN <<>> ELSE SelectSeq(notice, LAMBDA l : l.line = "Detection")

\* C19: the notice of a flagged event lists at most three detections, the
\* three of highest severity among all detections of its fields, by
\* descending severity and by rule id among equal severities (the listing
\* that does not depend on the order of the detections in the input).
\* Stated for results whose severities all lie in [0, 1].
C19_TopThreeInRuleOrder ==
  (/\ pc = "annotated"
   /\ \A k \in 1..Len(flatMapDetections(result.fieldResults)) :
         /\ flatMapDetections(result.fieldResults)[k].severity >= 0
         /\ flatMapDetections(result.fieldResults)[k].severity <= 1000) =>
    LET top == Slice(SortListed(flatMapDetections(result.fieldResults)), 0, 3)
    IN  DetectionLines(annotations) =
          IF result.overallRiskLevel = "safe" THEN <<>>
          ELSE [k \in 1..Len(top) |->
                  [line |-> "Detection", ruleId |-> top[k].ruleId,
                   hundredths |-> toFixed2(top[k].severity)]]

----------------------------------------------------------------------------
(* The cloud feed (SpecStore) *)

FeedHashes(feed) == {feed[k].hash : k \in 1..Len(feed)}

\* C20: a report that brings the stored entry of a hash to reportCount >= 2
\* and confidence >= 0.60 leaves the hash in the feed, and a hash in the
\* feed is one whose stored entry has met both conditions at some report (so
\* a hash reported once is not in the feed).
C20_FeedIffThresholdMet ==
  /\ (/\ storeHistory.last # NoReturn
      /\ storeHistory.last.op = "recordReport"
      /\ storeHistory.last.stored.reportCount >= 2
      /\ storeHistory.last.stored.confidence >= 600) =>
        storeHistory.last.hash \in FeedHashes(storeHistory.last.feed)
  /\ FeedHashes(getFeedSince(kv, Null, now)) \subseteq storeHistory.everMet
  /\ \A k \in 1..Len(StoreHashes) :
        storeHistory.reportsOf[k] <= 1 =>
           StoreHashes[k] \notin FeedHashes(getFeedSince(kv, Null, now))

C20_Witness ==
  /\ storeHistory.last # NoReturn
  /\ storeHistory.last.op = "recordReport"
  /\ storeHistory.last.stored.reportCount = 2
  /\ storeHistory.last.stored.confidence = 600
  /\ storeHistory.last.hash = "c1"
  /\ FeedHashes(storeHistory.last.feed) = {"c1"}
  /\ kvGet(kv, <<KV_PREFIX, "c2">>, now) # Null
  /\ storeHistory.reportsOf[2] = 1

----------------------------------------------------------------------------
(* Hashes of normalized texts (SpecFingerprint) *)

\* upper(lower(collapse_ws(T)))
Renormalized(text) == upper(lower(collapse_ws(text)))

\* C21: the content hash of a text equals the content hash of
\* upper(lower(collapse_ws(text))), and so does the structural hash.
C21_HashesIgnoreCaseAndSpace ==
  fingerprint.contentHash # Null =>
    /\ fingerprint.contentHash = computeContentHash(Renormalized(fingerprint.text))
    /\ fingerprint.structuralHash = computeStructuralHash(Renormalized(fingerprint.text))

----------------------------------------------------------------------------
(* Feed synchronisation (SpecSync) *)

\* C22: syncFeed sends a request only when the cloud is enabled and the
\* interval has elapsed since last-sync, and otherwise returns 0 without a
\* request; last-sync advances only when the request succeeded, and a sync
\* whose request failed returns 0 and leaves last-sync and the cache
\* unchanged.
C22_SyncOnlyAdvancesOnSuccess ==
  syncReturn # NoReturn =>
    LET due == cloudEnabled /\ syncReturn.at - syncReturn.lastSyncBefore >= syncIntervalHours
    IN  /\ Len(syncReturn.requests) > 0 => due
        /\ ~due => syncReturn.value = 0 /\ syncReturn.requests = <<>>
        /\ syncReturn.lastSyncAfter # syncReturn.lastSyncBefore => syncReturn.answer = "ok"
        /\ syncReturn.answer \in {"nonok", "error"} =>
              /\ syncReturn.value = 0
              /\ syncReturn.lastSyncAfter = syncReturn.lastSyncBefore
              /\ syncReturn.cacheUnchanged

----------------------------------------------------------------------------
(* Match ranges (SpecRanges) *)

\* C23: every detection with matchLength > 0 of the scanned field points at
\* a range inside the field, and the characters of the range are the text
\* the rule matched.
C23_DetectionRangesValid ==
  \A k \in 1..Len(fieldResults) :
     LET content == extractScannableFields(event)[k].content
     IN  \A d \in DetectionsOf(fieldResults[k]) :
            d.matchLength > 0 =>
              /\ 0 <= d.matchOffset
              /\ d.matchOffset + d.matchLength <= Len(content)
              /\ Slice(content, d.matchOffset, d.matchOffset + d.matchLength)
                   = d.matchedContent

----------------------------------------------------------------------------
(* Redaction of fields with many detections (SpecCapped) *)

\* What the local tiers report for the k-th scannable field of the event.
ReportedFor(k) ==
  LET f == extractScannableFields(event)[k]
  IN  StructuralAnalyze(f.content)
      \o ContextualAnalyze(f.content, ScanContext(event, ownerDomain, f))

\* C26: in a field whose action is Redact the sanitized content is the
\* content with every match of length > 0 that a tier reported replaced by
\* its marker, whatever the number of detections.
C26_EveryReportedMatchRedacted ==
  \A k \in 1..Len(fieldResults) :
     fieldResults[k].action = "redact" =>
       fieldResults[k].sanitizedContent =
         redactDangerousContent(extractScannableFields(event)[k].content,
                                ReportedFor(k))

----------------------------------------------------------------------------
(* Overlapping cache operations (SpecOverlap) *)

\* C28: once every operation has finished, the entry of a hash that one set
\* wrote and no other set wrote again holds that set's result, in the cache
\* (so that get returns it) and in the cache file.
C28_CompletedSetNotLost ==
  (\A i \in OpIds : ops[i].pc = "done") =>
    \A i \in OpIds :
       (ops[i].kind = "set"
          /\ \A j \in OpIds \ {i} : ~(ops[j].kind = "set" /\ ops[j].hash = ops[i].hash)) =>
         /\ get(entries, ops[i].hash, now).value = ops[i].res
         /\ cacheFile[ops[i].hash] # NoEntry
         /\ cacheFile[ops[i].hash].result = ops[i].res

----------------------------------------------------------------------------
(* Event ids and entry files of the quarantine (SpecQuarantine) *)

\* C29: get(id) returns only an entry whose eventId is id, and a store for
\* one event id leaves the entry of every other event id as it was.
C29_EntriesKeptApartById ==
  /\ (qReturn # NoReturn /\ qReturn.op = "get" /\ qReturn.value # Null) =>
        qReturn.value.eventId = qReturn.eventId
  /\ (qReturn # NoReturn /\ qReturn.op = "store") =>
        \A f \in QuarantinePaths :
           (qReturn.before[f] # NoFile
              /\ qReturn.before[f].eventId # qReturn.eventId) =>
             quarantine[f] = qReturn.before[f]

----------------------------------------------------------------------------
(* Overlapping report requests (SpecReports) *)

\* The accepted reports that named hash h.
ReportsNaming(h) ==
  Cardinality({i \in OpIds : ops[i].request.contentHash = h})
  + Cardinality({i \in OpIds : ops[i].request.structuralHash = h})

\* C30: once every accepted report request has been served, the reportCount
\* stored for a hash is the number of accepted reports that named it.
C30_NoReportLost ==
  (\A i \in OpIds : ops[i].pc = "done") =>
    \A k \in 1..Len(StoreHashes) :
       LET stored == kvGet(kv, <<KV_PREFIX, StoreHashes[k]>>, now)
       IN  /\ stored # Null
           /\ stored.reportCount = ReportsNaming(StoreHashes[k])

====
